---- MODULE Spec2Model ----
(***************************************************************************)
(* Simulation core of the toroidal snake game: ToroidalSpace, Snake-       *)
(* Controller, SpawnSystem, collision queries, ScoringSystem and the       *)
(* GameSession orchestrator.                                               *)
(*                                                                         *)
(* The source computes in IEEE doubles; the model computes in fixed point: *)
(*   time        tenths of a second            (2.4 s    -> 24)            *)
(*   length      hundredths of a world unit    (84       -> 8400)          *)
(*   speed       hundredths of a unit per s    (5.5      -> 550)           *)
(*   angle       milliradians                  (2.4 rad  -> 2400)          *)
(*   ratio       hundredths (multiplier) or thousandths (sin, cos, random) *)
(* Every program constant below is the source's value in these units.      *)
(***************************************************************************)
EXTENDS Integers, Sequences, FiniteSets, TLC

\* ------------------------------------------------------------------ bounds
\* ticks (update calls) one run of the session explores
MaxTicks == 24
\* ticks of one run that carry a non-zero turn input; they are consecutive
\* (one manoeuvre)
MaxTurns == 1
\* resets of one run after the first
MaxResets == 1
\* the combo up to which the ScoringSystem taken alone collects food
MaxCombo == 22
\* the score up to which the ScoringSystem taken alone collects
MaxScore == 600
\* calls of one run of the SnakeController taken alone
MaxSnakeOps == 3
\* calls of one run of the SpawnSystem taken alone
MaxSpawnOps == 4
\* the largest coordinate passed to the functions of torus-space taken alone
MaxCoord == 44
\* calls of the multiplayer store in one run, in flight or finished
MaxCalls == 2
\* frames of no duration in a run of IdleSpec
MaxIdle == 4
\* the latest elapsedSec passed to checkObstacleCollision taken alone
MaxElapsed == 20
\* calls of the GameLoop and frames in a run of LoopSpec
MaxFrames == 5
\* handlers of main.ts run in a run of AppSpec, playing ticks apart
MaxAppOps == 3
\* playing ticks in a run of AppSpec
MaxAppTicks == 5
\* calls of join(), leave() and tick() in a run of ClientSpec
MaxClientOps == 5

\* ------------------------------------------------------- program constants
torusWidth == 8400
torusDepth == 8400
baseSpeed == 550
maxSpeed == 1450
turnRate == 2400
START_GRACE_SEC == 24
foodBaseScore == 10
powerupBonus == 45
comboWindowSec == 38
comboStepSize == 3
comboStepMultiplier == 50
comboMaxBonus == 300
minHeadDistance == 1450
minSegmentDistance == 240
minObstacleDistance == 320
minPickupDistance == 220
minFoodDistance == 200
baseObstacleCount == 8
maxObstacleCount == 24
startSafeAheadDistance == 1600
startSafeHalfWidth == 540
foodCount == 1
\* GameSession's SnakeController configuration
turnSmoothing == 105
segmentSpacing == 90
maxSegments == 340
startLength == 8
\* difficulty ramp: difficulty01 = elapsedSec / 180 s
rampSec == 1800
\* spawn height of every entity and of the default head
spawnY == 70
\* collision radii (defaults of the collision-system functions)
selfSkipSegments == 4
selfRadius == 64
headRadius == 70
foodPickupRadius == 108
pickupPickupRadius == 110
\* power-up effects
overdriveSpeedPct == 128
overdriveBonus == 75
magnetStrength == 460
assistPct == 18
\* pi in milliradians
PiMilli == 3142
\* GameLoop: the fixed step of 1 / 60 s and the limit of 0.25 s to a frame's
\* delta, in thirds of a millisecond
fixedStepSec == 50
maxFrameDeltaSec == 750

POWERUP_DURATIONS(kind) ==
  CASE kind = "overdrive" -> 85
    [] kind = "phase" -> 55
    [] kind = "magnet" -> 90

PowerupKinds == <<"overdrive", "phase", "magnet">>

\* --------------------------------------------------------------- util/math
Min(a, b) == IF a < b THEN a ELSE b
Max(a, b) == IF a > b THEN a ELSE b

\* clamp(value, min, max) = Math.min(max, Math.max(min, value))
clamp(value, lo, hi) == Min(hi, Max(lo, value))

Abs(a) == IF a < 0 THEN -a ELSE a

\* the array with the elements f[1], ..., f[n], each computed once
Array(f) == f \o <<>>

\* a / b rounded to the nearest integer, halves up (Math.round), b > 0
RoundDiv(a, b) == (2 * a + b) \div (2 * b)

\* a / b truncated toward zero, b > 0: the fixed-point image of a real quotient
TruncDiv(a, b) == IF a >= 0 THEN a \div b ELSE -((-a) \div b)

RECURSIVE SqrtIter(_, _)
SqrtIter(n, x) ==
  LET y == (x + n \div x) \div 2
  IN IF y >= x THEN x ELSE SqrtIter(n, y)

\* floor of the square root (Math.hypot's fixed-point image)
ISqrt(n) == IF n <= 0 THEN 0 ELSE SqrtIter(n, n)

hypot(dx, dz) == ISqrt(dx * dx + dz * dz)

\* Math.sin on milliradians, in thousandths (Bhaskara's rational approximation
\* on [0, pi], evaluated on hundredths of a radian)
SinHalf(c) == (16 * c * (314 - c) * 1000) \div (5 * 98596 - 4 * c * (314 - c))

sin(a) ==
  LET m == a % (2 * PiMilli)
  IN IF m <= PiMilli THEN SinHalf(Min(314, m \div 10))
     ELSE -SinHalf(Min(314, (m - PiMilli) \div 10))

cos(a) == sin(a + PiMilli \div 2)

RECURSIVE ExpSeries(_, _, _, _)
ExpSeries(x, k, term, acc) ==
  IF k > 16 \/ term = 0 THEN acc
  ELSE ExpSeries(x, k + 1, (term * x) \div (1000 * (k + 1)), acc + term)

\* 1 - Math.exp(-x) in thousandths, x in thousandths, 0 <= x; from x = 7 on
\* Math.exp(-x) is below a thousandth
OneMinusExpNeg(x) ==
  IF x >= 7000 THEN 1000
  ELSE 1000 - (1000000 \div ExpSeries(x, 0, 1000, 0))

\* ------------------------------------------------------- world/torus-space
\* wrapScalar that leaves the value where it is (C14 fails on it)
wrapScalarNone(value, size) == value

\* wrapScalar whose interval is closed at size/2 (C23 fails on it)
RECURSIVE wrapScalarClosed(_, _)
wrapScalarClosed(value, size) ==
  IF 2 * value > size THEN wrapScalarClosed(value - size, size)
  ELSE IF 2 * value < -size THEN wrapScalarClosed(value + size, size)
  ELSE value

RECURSIVE wrapScalar(_, _)
wrapScalar(value, size) ==
  IF 2 * value >= size THEN wrapScalar(value - size, size)
  ELSE IF 2 * value < -size THEN wrapScalar(value + size, size)
  ELSE value

wrapPosition(p, width, depth) ==
  [x |-> wrapScalar(p.x, width), y |-> p.y, z |-> wrapScalar(p.z, depth)]

\* torusDelta that turns a delta of exactly size/2 round (C25 fails on it)
torusDeltaTieDown(from, to, size) ==
  LET d0 == to - from
      d1 == IF 2 * d0 >= size THEN d0 - size ELSE d0
  IN IF 2 * d1 < -size THEN d1 + size ELSE d1

torusDelta(from, to, size) ==
  LET d0 == to - from
      d1 == IF 2 * d0 > size THEN d0 - size ELSE d0
  IN IF 2 * d1 < -size THEN d1 + size ELSE d1

torusDistanceXZ(a, b, width, depth) ==
  hypot(torusDelta(a.x, b.x, width), torusDelta(a.z, b.z, depth))

\* torusDistanceXZ(a, b) squared: distances are compared through their
\* squares, which orders them exactly as Math.hypot does
torusDistSq(a, b) ==
  LET dx == torusDelta(a.x, b.x, torusWidth)
      dz == torusDelta(a.z, b.z, torusDepth)
  IN dx * dx + dz * dz

\* t = num / den in [0, 1]
torusLerp(a, b, num, den, width, depth) ==
  LET dx == torusDelta(a.x, b.x, width)
      dz == torusDelta(a.z, b.z, depth)
  IN [x |-> wrapScalar(a.x + TruncDiv(dx * num, den), width),
      y |-> a.y + TruncDiv((b.y - a.y) * num, den),
      z |-> wrapScalar(a.z + TruncDiv(dz * num, den), depth)]

\* --------------------------------------------------- game/scoring-system
\* ScoringSystem's fields after construction
ScoringNew ==
  [score |-> 0, combo |-> 0, multiplier |-> 100, comboTtlSec |-> 0,
   multiplierBonus |-> 0]

ScoringReset(sc) ==
  [score |-> 0, combo |-> 0, multiplier |-> 100, comboTtlSec |-> 0,
   multiplierBonus |-> 0]

\* ScoringUpdate with a window that outlasts its last instant (C4 fails on it)
ScoringUpdateLate(sc, dt) ==
  IF sc.combo <= 0 THEN sc
  ELSE IF sc.comboTtlSec - dt < 0
       THEN [sc EXCEPT !.combo = 0, !.multiplier = 100, !.comboTtlSec = 0]
       ELSE [sc EXCEPT !.comboTtlSec = sc.comboTtlSec - dt]

\* ScoringUpdate that clears the score with the combo (C3 fails on it)
ScoringUpdateClearsScore(sc, dt) ==
  IF sc.combo <= 0 THEN sc
  ELSE IF sc.comboTtlSec - dt <= 0
       THEN [sc EXCEPT !.combo = 0, !.multiplier = 100, !.comboTtlSec = 0,
                       !.score = 0]
       ELSE [sc EXCEPT !.comboTtlSec = sc.comboTtlSec - dt]

ScoringUpdate(sc, dt) ==
  IF sc.combo <= 0 THEN sc
  ELSE IF sc.comboTtlSec - dt <= 0
       THEN [sc EXCEPT !.combo = 0, !.multiplier = 100, !.comboTtlSec = 0]
       ELSE [sc EXCEPT !.comboTtlSec = sc.comboTtlSec - dt]

setMultiplierBonus(sc, bonus) == [sc EXCEPT !.multiplierBonus = bonus]

FoodGain(multiplier, bonus) == RoundDiv(foodBaseScore * (multiplier + bonus), 100)

\* onFoodCollected without the clamp of the combo bonus (C5 fails on it)
onFoodCollectedUnclamped(sc) ==
  [sc EXCEPT !.combo = sc.combo + 1,
             !.comboTtlSec = comboWindowSec,
             !.multiplier =
               100 + ((sc.combo + 1) \div comboStepSize) * comboStepMultiplier,
             !.score = sc.score
               + FoodGain(100 + ((sc.combo + 1) \div comboStepSize)
                                  * comboStepMultiplier,
                          sc.multiplierBonus)]

onFoodCollected(sc) ==
  LET combo == sc.combo + 1
      comboTier == combo \div comboStepSize
      comboBonus == clamp(comboTier * comboStepMultiplier, 0, comboMaxBonus)
      multiplier == 100 + comboBonus
  IN [sc EXCEPT !.combo = combo,
                !.comboTtlSec = comboWindowSec,
                !.multiplier = multiplier,
                !.score = sc.score + FoodGain(multiplier, sc.multiplierBonus)]

PowerupGain(multiplier, bonus) == RoundDiv(powerupBonus * (multiplier + bonus), 100)

onPowerupCollected(sc) ==
  [sc EXCEPT !.score = sc.score + PowerupGain(sc.multiplier, sc.multiplierBonus)]

\* -------------------------------------------------- game/snake-controller
Vec3(x, y, z) == [x |-> x, y |-> y, z |-> z]

DefaultStart == Vec3(0, spawnY, 0)

\* SnakeController's fields after construction
SnakeNew ==
  [head |-> [position |-> DefaultStart, headingRad |-> 0, speed |-> 0,
             angularVelocity |-> 0],
   segments |-> <<>>, trail |-> <<>>, totalDistance |-> 0]

\* the samples of the loop  for (d = -tailLength; d <= 0; d += sampleStep)
seedInitialTrail(head, segmentCount) ==
  LET sampleStep == segmentSpacing \div 2
      tailLength == (segmentCount + 3) * segmentSpacing
      count == tailLength \div sampleStep + 1
      seeded ==
        Array([k \in 1..count |->
          LET d == (k - 1) * sampleStep - tailLength
          IN [position |->
                Vec3(head.position.x + TruncDiv(cos(head.headingRad) * d, 1000),
                     head.position.y,
                     head.position.z + TruncDiv(sin(head.headingRad) * d, 1000)),
              distance |-> d]])
  IN IF seeded[Len(seeded)].distance # 0
     THEN Append(seeded, [position |-> head.position, distance |-> 0])
     ELSE seeded

\* reset(startLength, startPosition, startHeadingRad)
SnakeReset(sn, length, startPosition, startHeadingRad) ==
  LET head == [position |-> startPosition, headingRad |-> startHeadingRad,
               speed |-> 0, angularVelocity |-> 0]
      target == clamp(length, 2, maxSegments)
      dirX == cos(startHeadingRad)
      dirZ == sin(startHeadingRad)
  IN [head |-> head,
      segments |->
        Array([i \in 1..target |->
           [id |-> i,
            position |->
              wrapPosition(
                Vec3(head.position.x - TruncDiv(dirX * i * segmentSpacing, 1000),
                     head.position.y,
                     head.position.z - TruncDiv(dirZ * i * segmentSpacing, 1000)),
                torusWidth, torusDepth)]]),
      trail |-> seedInitialTrail(head, target),
      totalDistance |-> 0]

\* SnakeGrow without the cap (C6 fails on it)
SnakeGrowUncapped(sn, amount) ==
  IF amount <= 0 THEN sn
  ELSE [sn EXCEPT !.segments =
          sn.segments \o
            [i \in 1..amount |->
               [id |-> Len(sn.segments) + i,
                position |-> IF Len(sn.segments) = 0 THEN sn.head.position
                             ELSE sn.segments[Len(sn.segments)].position]]]

\* SnakeGrow that numbers the new segments from one (C7 fails on it)
SnakeGrowRenumbers(sn, amount) ==
  IF clamp(Len(sn.segments) + amount, 0, maxSegments) <= Len(sn.segments)
  THEN sn
  ELSE [sn EXCEPT !.segments =
          sn.segments \o
            [i \in 1..(clamp(Len(sn.segments) + amount, 0, maxSegments)
                         - Len(sn.segments)) |->
               [id |-> i,
                position |-> IF Len(sn.segments) = 0 THEN sn.head.position
                             ELSE sn.segments[Len(sn.segments)].position]]]

SnakeGrow(sn, amount) ==
  LET len == Len(sn.segments)
      nextLength == clamp(len + amount, 0, maxSegments)
      lastPosition == IF len = 0 THEN sn.head.position
                      ELSE sn.segments[len].position
  IN IF nextLength <= len THEN sn
     ELSE [sn EXCEPT !.segments =
             sn.segments \o
               [i \in 1..(nextLength - len) |->
                  [id |-> len + i, position |-> lastPosition]]]

\* addTrailSampleIfNeeded without the spacing test (C32 fails on it)
addTrailSampleAlways(sn) ==
  [sn EXCEPT !.trail =
     Append(sn.trail,
            [position |-> sn.head.position, distance |-> sn.totalDistance])]

addTrailSampleIfNeeded(sn) ==
  IF Len(sn.trail) = 0
  THEN [sn EXCEPT !.trail =
          <<[position |-> sn.head.position, distance |-> sn.totalDistance]>>]
  ELSE LET lastSample == sn.trail[Len(sn.trail)]
           dsq == torusDistSq(sn.head.position, lastSample.position)
       IN \* dx < segmentSpacing * 0.55
          IF 400 * Min(dsq, 1000000) < 121 * segmentSpacing * segmentSpacing
          THEN sn
          ELSE [sn EXCEPT !.trail =
                  Append(sn.trail,
                    [position |-> sn.head.position,
                     distance |-> sn.totalDistance])]

\* the point of the trail between samples i and i + 1 at targetDistance
Between(a, b, targetDistance) ==
  IF b.distance - a.distance = 0
  THEN torusLerp(a.position, b.position, 0, 1, torusWidth, torusDepth)
  ELSE torusLerp(a.position, b.position,
                 clamp(targetDistance - a.distance, 0, b.distance - a.distance),
                 b.distance - a.distance, torusWidth, torusDepth)

\* the loop of sampleTrail, from the newest sample back: hits are the
\* spans that hold targetDistance, and the newest of them is the one found
ScanTrail(trail, targetDistance, hits) ==
  IF hits = {} THEN trail[Len(trail)].position
  ELSE LET i == CHOOSE k \in hits : \A j \in hits : j <= k
       IN Between(trail[i], trail[i + 1], targetDistance)

sampleTrail(trail, targetDistance) ==
  IF targetDistance <= trail[1].distance THEN trail[1].position
  ELSE IF targetDistance >= trail[Len(trail)].distance
       THEN trail[Len(trail)].position
       ELSE ScanTrail(trail, targetDistance,
                      {i \in 1..(Len(trail) - 1) :
                         /\ targetDistance >= trail[i].distance
                         /\ targetDistance <= trail[i + 1].distance})

updateSegmentsFromTrail(sn) ==
  IF Len(sn.trail) < 2 THEN sn
  ELSE [sn EXCEPT !.segments =
          Array([i \in 1..Len(sn.segments) |->
             [id |-> sn.segments[i].id,
              position |->
                sampleTrail(sn.trail, sn.totalDistance - i * segmentSpacing)]])]

\* the loop of pruneTrail: the oldest samples go while more than two remain
\* and the second oldest is older than minDistance
ShiftTrail(trail, minDistance) ==
  IF Len(trail) <= 2 THEN trail
  ELSE LET shifts ==
             CHOOSE k \in 0..(Len(trail) - 2) :
               /\ \A j \in 1..k : trail[j + 1].distance < minDistance
               /\ k = Len(trail) - 2 \/ trail[k + 2].distance >= minDistance
       IN SubSeq(trail, shifts + 1, Len(trail))

\* pruneTrail without the margin of four spacings (C33 fails on it)
pruneTrailTight(sn) ==
  [sn EXCEPT !.trail =
     ShiftTrail(sn.trail,
                sn.totalDistance - Len(sn.segments) * segmentSpacing)]

pruneTrail(sn) ==
  LET neededLength == (Len(sn.segments) + 4) * segmentSpacing
      minDistance == sn.totalDistance - neededLength
  IN [sn EXCEPT !.trail = ShiftTrail(sn.trail, minDistance)]

\* update(dt, inputTurn, targetSpeed, turnRate)
SnakeUpdate(sn, dt, inputTurn, targetSpeed, rate) ==
  LET desiredAngular == clamp(inputTurn, -1, 1) * rate
      angularVelocity ==
        sn.head.angularVelocity +
          TruncDiv((desiredAngular - sn.head.angularVelocity) *
                     OneMinusExpNeg(turnSmoothing * dt * 10), 1000)
      headingRad == sn.head.headingRad + TruncDiv(angularVelocity * dt, 10)
      dx == TruncDiv(cos(headingRad) * targetSpeed * dt, 10000)
      dz == TruncDiv(sin(headingRad) * targetSpeed * dt, 10000)
      movedDistance == hypot(dx, dz)
      moved ==
        [sn EXCEPT !.head =
                     [position |->
                        wrapPosition(Vec3(sn.head.position.x + dx,
                                          sn.head.position.y,
                                          sn.head.position.z + dz),
                                     torusWidth, torusDepth),
                      headingRad |-> headingRad,
                      speed |-> targetSpeed,
                      angularVelocity |-> angularVelocity],
                   !.totalDistance = sn.totalDistance + movedDistance]
  IN pruneTrail(updateSegmentsFromTrail(addTrailSampleIfNeeded(moved)))

\* ------------------------------------------------------------ util/random
\* A RandomFn is a stream of numbers in [0, 1), here in thousandths: a cyclic
\* script, as a seeded generator or a test double is. rng = [src, pos] is
\* the stream and the position of its next number. The first script is the
\* constant 0.5, which sends every candidate of findSafePosition to the
\* centre of the world. The second, read in the order the spawn system
\* draws: the constructor's and reset's timers; eight obstacles away from
\* the x axis (position x, z, pulse, radius, and amplitude, frequency and
\* phase for the third, which pulses); then, along the path of a snake that
\* starts at the default position and never turns, a food, two more foods
\* as they are replenished, an overdrive pickup and its next timer, a fourth
\* food, and the ninth obstacle.
StraightRun ==
     <<500, 0,
       100, 200, 100, 500,
       300, 800, 100, 0,
       500, 250, 900, 999, 500, 500, 250,
       700, 750, 100, 500,
       900, 150, 100, 500,
       150, 900, 100, 500,
       600, 100, 100, 500,
       400, 650, 100, 500,
       699, 500,
       946, 500,
       200, 500,
       286, 500, 100, 500,
       454, 500,
       545, 500, 100, 999>>

\* the third script is the second with a magnet pickup instead of the
\* overdrive pickup
RandomScripts ==
  << <<500>>, StraightRun, [StraightRun EXCEPT ![46] = 700] >>

random(rng) == RandomScripts[rng.src][rng.pos]

NextRng(rng) == [rng EXCEPT !.pos = (rng.pos % Len(RandomScripts[rng.src])) + 1]

\* randInRange(random, min, max) on the number r
randInRange(r, lo, hi) == lo + (r * (hi - lo)) \div 1000

\* --------------------------------------------------- game/collision-system
\* checkSelfCollision that skips no segment (C35 fails on it)
checkSelfCollisionNoSkip(head, segments) ==
  \E i \in 1..Len(segments) :
    torusDistSq(head.position, segments[i].position) <= selfRadius * selfRadius

checkSelfCollision(head, segments) ==
  \E i \in (selfSkipSegments + 1)..Len(segments) :
    torusDistSq(head.position, segments[i].position) <= selfRadius * selfRadius

\* pulseScale on the sine as it is, without the shift to [0, 1] (C36 fails
\* on it)
pulseScaleUnshifted(obstacle, elapsedSec) ==
  IF obstacle.kind # "pulse" THEN 1000
  ELSE 1000 + TruncDiv(obstacle.pulseAmplitude
                         * sin(TruncDiv(elapsedSec * obstacle.pulseFrequency, 10)
                               + obstacle.pulsePhase), 1000)

pulseScale(obstacle, elapsedSec) ==
  IF obstacle.kind # "pulse" THEN 1000
  ELSE LET wave ==
             (sin(TruncDiv(elapsedSec * obstacle.pulseFrequency, 10) +
                  obstacle.pulsePhase) + 1000) \div 2
       IN 1000 + (obstacle.pulseAmplitude * wave) \div 1000

ObstacleHits(head, obstacle, elapsedSec) ==
  LET radius == (obstacle.radius * pulseScale(obstacle, elapsedSec)) \div 1000
                  + headRadius
  IN torusDistSq(head.position, obstacle.position) <= radius * radius

\* the first of the indices hits of a list, 0 for null
FirstIndex(hits) ==
  IF hits = {} THEN 0 ELSE CHOOSE i \in hits : \A j \in hits : i <= j

checkObstacleCollision(head, obstacles, elapsedSec) ==
  FirstIndex({i \in 1..Len(obstacles) :
                ObstacleHits(head, obstacles[i], elapsedSec)})

checkFoodCollision(head, foods) ==
  FirstIndex({i \in 1..Len(foods) :
                torusDistSq(head.position, foods[i].position)
                  <= foodPickupRadius * foodPickupRadius})

checkPickupCollision(head, pickups) ==
  FirstIndex({i \in 1..Len(pickups) :
                torusDistSq(head.position, pickups[i].position)
                  <= pickupPickupRadius * pickupPickupRadius})

\* ------------------------------------------------------- game/spawn-system
\* SpawnSystem's fields after construction with the random source src
SpawnNew(src) ==
  LET rng == [src |-> src, pos |-> 1]
  IN [nextId |-> 1,
      powerupTimerSec |-> randInRange(random(rng), 80, 140),
      foods |-> <<>>, pickups |-> <<>>, obstacles |-> <<>>,
      rng |-> NextRng(rng)]

\* findSafePosition that accepts its first candidate wherever it lies (C15
\* fails on it)
IsSafeAnywhere(sp, head, segments, candidate) == TRUE

\* the checks of one candidate of findSafePosition
IsSafe(sp, head, segments, candidate) ==
  /\ torusDistSq(candidate, head.position) >= minHeadDistance * minHeadDistance
  /\ \A i \in 1..Len(segments) :
       torusDistSq(candidate, segments[i].position)
         >= minSegmentDistance * minSegmentDistance
  /\ \A i \in 1..Len(sp.obstacles) :
       torusDistSq(candidate, sp.obstacles[i].position)
         >= (sp.obstacles[i].radius + minObstacleDistance)
              * (sp.obstacles[i].radius + minObstacleDistance)
  /\ \A i \in 1..Len(sp.foods) :
       torusDistSq(candidate, sp.foods[i].position)
         >= minFoodDistance * minFoodDistance
  /\ \A i \in 1..Len(sp.pickups) :
       torusDistSq(candidate, sp.pickups[i].position)
         >= minPickupDistance * minPickupDistance

\* one candidate: two numbers of the stream
Candidate(rng) ==
  Vec3(randInRange(random(rng), -(torusWidth \div 2), torusWidth \div 2),
       spawnY,
       randInRange(random(NextRng(rng)), -(torusDepth \div 2), torusDepth \div 2))

\* the stream n numbers later
Advance(rng, n) ==
  [rng EXCEPT !.pos = ((rng.pos - 1 + n) % Len(RandomScripts[rng.src])) + 1]

\* the result of the loop of findSafePosition from the stream rng, safe being
\* the attempts whose candidate passes: the first safe attempt returns, and
\* after 60 failures the fallback draws two more numbers and clamps them
FirstSafe(rng, safe) ==
  IF safe = {}
  THEN [position |-> Vec3(clamp(Candidate(Advance(rng, 120)).x, -4000, 4000),
                          spawnY,
                          clamp(Candidate(Advance(rng, 120)).z, -4000, 4000)),
        rng |-> Advance(rng, 122), fallback |-> TRUE, attempts |-> 60]
  ELSE LET first == CHOOSE k \in safe : \A j \in safe : k <= j
       IN [position |-> Candidate(Advance(rng, 2 * first)),
           rng |-> Advance(rng, 2 * first + 2), fallback |-> FALSE,
           attempts |-> first + 1]

\* the loop of findSafePosition: attempt k draws its candidate 2k numbers on
FindSafe(sp, head, segments, rng) ==
  FirstSafe(rng, {k \in 0..59 :
                    IsSafe(sp, head, segments, Candidate(Advance(rng, 2 * k)))})

\* findSafePosition: the position, the stream after it, whether it is the
\* fallback of an exhausted attempt budget, and the candidates drawn
findSafePosition(sp, head, segments) == FindSafe(sp, head, segments, sp.rng)

isInStartSafeCorridor(head, candidate) ==
  LET dx == torusDelta(head.position.x, candidate.x, torusWidth)
      dz == torusDelta(head.position.z, candidate.z, torusDepth)
      forwardX == cos(head.headingRad)
      forwardZ == sin(head.headingRad)
      ahead == dx * forwardX + dz * forwardZ
      lateral == Abs(dz * forwardX - dx * forwardZ)
  IN /\ ahead > 0
     /\ ahead <= startSafeAheadDistance * 1000
     /\ lateral < startSafeHalfWidth * 1000

\* how an entity was placed, kept with it for the record: by the fallback
\* or not, after how many candidates, and after how many draws repeated for
\* the start corridor
Placement(found, redraws) ==
  [fallback |-> found.fallback, attempts |-> found.attempts,
   redraws |-> redraws]

\* createObstacle whose corridor loop runs once more than 80 times (C18
\* fails on it)
RECURSIVE CorridorRetryLong(_, _, _, _, _)
CorridorRetryLong(sp, head, segments, found, attempt) ==
  IF attempt > 80 \/ ~isInStartSafeCorridor(head, found.position)
  THEN [found |-> found, redraws |-> attempt]
  ELSE CorridorRetryLong(sp, head, segments,
                         FindSafe(sp, head, segments, found.rng), attempt + 1)

\* createObstacle that keeps its first position (C16 fails on it)
CorridorRetryNever(sp, head, segments, found, attempt) ==
  [found |-> found, redraws |-> attempt]

RECURSIVE CorridorRetry(_, _, _, _, _)
\* one more draw of the retry loop of createObstacle
Redraw(sp, head, segments, found, next, attempt) ==
  IF next = found THEN [found |-> found, redraws |-> 80]
  ELSE CorridorRetry(sp, head, segments, next, attempt + 1)

\* the retry loop of createObstacle: a position in the start corridor is
\* drawn again, at most 80 times.  A draw that returns the position and the
\* stream it started from returns them in every attempt left, so the loop
\* ends with them after its 80 attempts.
CorridorRetry(sp, head, segments, found, attempt) ==
  IF attempt >= 80 \/ ~isInStartSafeCorridor(head, found.position)
  THEN [found |-> found, redraws |-> attempt]
  ELSE Redraw(sp, head, segments, found,
              FindSafe(sp, head, segments, found.rng), attempt)

\* the obstacle createObstacle builds at the position drawn, pushed
NewObstacle(sp, drawn) ==
  LET pulse == random(drawn.found.rng) > 750
      r2 == Advance(drawn.found.rng, 1)
      r3 == Advance(drawn.found.rng, 2)
      r4 == Advance(drawn.found.rng, 3)
      r5 == Advance(drawn.found.rng, 4)
  IN [sp EXCEPT
        !.nextId = sp.nextId + 1,
        !.obstacles = Append(sp.obstacles,
           [id |-> sp.nextId,
            position |-> drawn.found.position,
            radius |-> randInRange(random(r2), 120, 250),
            kind |-> IF pulse THEN "pulse" ELSE "static",
            pulseAmplitude |->
              IF pulse THEN randInRange(random(r3), 120, 280) ELSE 0,
            pulseFrequency |->
              IF pulse THEN randInRange(random(r4), 1400, 2800) ELSE 0,
            pulsePhase |->
              IF pulse THEN randInRange(random(r5), 0, 2 * PiMilli) ELSE 0,
            placement |-> Placement(drawn.found, drawn.redraws)]),
        !.rng = IF pulse THEN Advance(drawn.found.rng, 5) ELSE r3]

\* createObstacle and the push of its result: the spawn system with one more
\* obstacle
createObstacle(sp, head, segments) ==
  NewObstacle(sp, CorridorRetry(sp, head, segments,
                                findSafePosition(sp, head, segments), 0))

RECURSIVE SeedLoop(_, _, _, _)
SeedLoop(sp, head, segments, i) ==
  IF i >= baseObstacleCount THEN sp
  ELSE SeedLoop(createObstacle(sp, head, segments), head, segments, i + 1)

seedObstacles(sp, head, segments) == SeedLoop(sp, head, segments, 0)

\* the obstacle count growObstaclePopulation aims at; difficulty01 is kept as
\* the numerator of elapsedSec / 180 s
ObstacleTarget(difficulty) ==
  baseObstacleCount
    + (difficulty * (maxObstacleCount - baseObstacleCount)) \div rampSec

\* growObstaclePopulation that aims at maxObstacleCount whatever the
\* difficulty (C10 fails on it)
growObstaclePopulationEager(sp, head, segments, difficulty) ==
  IF Len(sp.obstacles) >= maxObstacleCount THEN sp
  ELSE createObstacle(sp, head, segments)

growObstaclePopulation(sp, head, segments, difficulty) ==
  IF Len(sp.obstacles) >= ObstacleTarget(difficulty) THEN sp
  ELSE createObstacle(sp, head, segments)

\* a food pushed with the id counter left as it is (C12 fails on it)
NewFoodSameId(sp, found) ==
  [sp EXCEPT !.foods = Append(sp.foods,
                         [id |-> sp.nextId, position |-> found.position,
                          placement |-> Placement(found, 0)]),
             !.rng = found.rng]

\* the food ensureFoodCount pushes at the position found
NewFood(sp, found) ==
  [sp EXCEPT !.foods = Append(sp.foods,
                         [id |-> sp.nextId, position |-> found.position,
                          placement |-> Placement(found, 0)]),
             !.nextId = sp.nextId + 1,
             !.rng = found.rng]

\* ensureFoodCount that stops one food short of the target (C8 fails on it)
ensureFoodCountShort(sp, head, segments) ==
  IF Len(sp.foods) + 1 >= foodCount THEN sp
  ELSE NewFood(sp, findSafePosition(sp, head, segments))

RECURSIVE ensureFoodCount(_, _, _)
ensureFoodCount(sp, head, segments) ==
  IF Len(sp.foods) >= foodCount THEN sp
  ELSE ensureFoodCount(NewFood(sp, findSafePosition(sp, head, segments)),
                       head, segments)

\* the pickup trySpawnPowerup pushes at the position found
NewPickup(sp, found) ==
  [sp EXCEPT !.pickups = Append(sp.pickups,
                [id |-> sp.nextId, position |-> found.position,
                 kind |-> PowerupKinds[((random(found.rng) * 3) \div 1000) + 1],
                 placement |-> Placement(found, 0)]),
             !.nextId = sp.nextId + 1,
             !.rng = NextRng(found.rng)]

\* trySpawnPowerup without its cap of two pickups (C11 fails on it)
trySpawnPowerupUncapped(sp, head, segments) ==
  NewPickup(sp, findSafePosition(sp, head, segments))

trySpawnPowerup(sp, head, segments) ==
  IF Len(sp.pickups) >= 2 THEN sp
  ELSE NewPickup(sp, findSafePosition(sp, head, segments))

\* SpawnClear that goes on numbering where the last run stopped (C26 fails
\* on it)
SpawnClearKeepsIds(sp) ==
  [nextId |-> sp.nextId,
   powerupTimerSec |-> randInRange(random(sp.rng), 80, 140),
   foods |-> <<>>, pickups |-> <<>>, obstacles |-> <<>>,
   rng |-> NextRng(sp.rng)]

\* the fields reset(head, segments) clears and the timer it draws
SpawnClear(sp) ==
  [nextId |-> 1,
   powerupTimerSec |-> randInRange(random(sp.rng), 80, 140),
   foods |-> <<>>, pickups |-> <<>>, obstacles |-> <<>>,
   rng |-> NextRng(sp.rng)]

\* reset(head, segments)
SpawnReset(sp, head, segments) ==
  ensureFoodCount(seedObstacles(SpawnClear(sp), head, segments), head, segments)

\* the first two statements of update(dt, context): the population right
\* after replenishment
SpawnPopulate(sp, head, segments, difficulty) ==
  growObstaclePopulation(ensureFoodCount(sp, head, segments),
                         head, segments, difficulty)

\* the timer of update(dt, context) drawn again after a spawn attempt
RearmPowerupTimer(sp) ==
  [sp EXCEPT !.powerupTimerSec = randInRange(random(sp.rng), 100, 180),
             !.rng = NextRng(sp.rng)]

\* the rest of update(dt, context): the power-up timer
TickPowerupTimer(sp, dt, head, segments) ==
  IF sp.powerupTimerSec - dt <= 0
  THEN RearmPowerupTimer(trySpawnPowerup(sp, head, segments))
  ELSE [sp EXCEPT !.powerupTimerSec = sp.powerupTimerSec - dt]

\* update(dt, context)
SpawnUpdate(sp, dt, head, segments, difficulty) ==
  TickPowerupTimer(SpawnPopulate(sp, head, segments, difficulty),
                   dt, head, segments)

Without(list, idx) ==
  IF idx = 0 THEN list
  ELSE Array([i \in 1..(Len(list) - 1) |->
                IF i < idx THEN list[i] ELSE list[i + 1]])

\* consumeFood that leaves the food in the list (C9 fails on it)
consumeFoodKeeps(sp, foodId) == sp

consumeFood(sp, foodId) ==
  [sp EXCEPT !.foods =
     Without(sp.foods,
             FirstIndex({i \in 1..Len(sp.foods) : sp.foods[i].id = foodId}))]

consumePickup(sp, pickupId) ==
  [sp EXCEPT !.pickups =
     Without(sp.pickups,
             FirstIndex({i \in 1..Len(sp.pickups) :
                           sp.pickups[i].id = pickupId}))]

\* one food pulled towards the head by attractFoodsTo
Attract(food, head, strength, dt) ==
  LET dx == torusDelta(food.position.x, head.position.x, torusWidth)
      dz == torusDelta(food.position.z, head.position.z, torusDepth)
      len == hypot(dx, dz)
  IN IF len = 0 THEN food
     ELSE [food EXCEPT !.position =
             wrapPosition(
               Vec3(food.position.x + TruncDiv(dx * strength * dt, len * 10),
                    food.position.y,
                    food.position.z + TruncDiv(dz * strength * dt, len * 10)),
               torusWidth, torusDepth)]

attractFoodsTo(sp, head, strength, dt) ==
  [sp EXCEPT !.foods =
     Array([i \in 1..Len(sp.foods) |-> Attract(sp.foods[i], head, strength, dt)])]

\* ------------------------------------------------------- game/game-session
VARIABLES
  scoring,        \* GameSession.scoring: the ScoringSystem's fields
  snake,          \* GameSession.snake: head, segments, trail, totalDistance
  spawn,          \* GameSession.spawn: entities, nextId, timer, random source
  elapsedSec,
  difficulty01,   \* numerator of elapsedSec / 180 s, clamped to [0, rampSec]
  spawnGraceSec,
  activePowerup,  \* NoPowerup or [kind, ttlSec]
  last,           \* the last call: its name, inputs, result and events
  hist,           \* history: what the claims refer to across calls
  budget,         \* calls taken so far, against the bounds
  held,           \* the snapshot the caller holds, NoHeld for none
  store,          \* the multiplayer store: its module state, KV and calls
  loop,           \* the GameLoop, the clock and the animation frames asked for
  app,            \* main.ts: state, the state machine, lastSnapshot
  client          \* the MultiplayerClient and its requests in flight

vars == <<scoring, snake, spawn, elapsedSec, difficulty01, spawnGraceSec,
          activePowerup, last, hist, budget, held, store, loop, app, client>>

NoPowerup == [kind |-> "none", ttlSec |-> 0]

NoCall ==
  [op |-> "new", dt |-> 0, turn |-> 0, amount |-> 0, gameOver |-> FALSE,
   selfHit |-> FALSE, obstacleHit |-> FALSE, ateFood |-> FALSE,
   tookPickup |-> "none", foodsAfterSpawn |-> 0, events |-> <<>>]

\* the callbacks of SessionEvents
Handlers == {"onPickup", "onCollision", "onComboChanged"}

\* the session's fields, and the record of the call in progress; events
\* holds the callbacks the session was constructed with
Session ==
  [scoring |-> scoring, snake |-> snake, spawn |-> spawn,
   elapsedSec |-> elapsedSec, difficulty01 |-> difficulty01,
   spawnGraceSec |-> spawnGraceSec, activePowerup |-> activePowerup,
   events |-> Handlers, last |-> last]

\* this.events.handler?.(...): the call is made, and recorded, when the
\* callback is there
Emit(s, handler, event) ==
  IF handler \in s.events
  THEN [s EXCEPT !.last.events = Append(s.last.events, event)]
  ELSE s

\* updatePowerupTimers that keeps a power-up whose time is just up (C13
\* fails on it)
updatePowerupTimersLate(powerup, dt) ==
  IF powerup.kind = "none" THEN powerup
  ELSE IF powerup.ttlSec - dt < 0 THEN NoPowerup
       ELSE [powerup EXCEPT !.ttlSec = powerup.ttlSec - dt]

\* updatePowerupTimers(dt)
updatePowerupTimers(powerup, dt) ==
  IF powerup.kind = "none" THEN powerup
  ELSE IF powerup.ttlSec - dt <= 0 THEN NoPowerup
       ELSE [powerup EXCEPT !.ttlSec = powerup.ttlSec - dt]

\* activatePowerup(kind)
activatePowerup(kind) == [kind |-> kind, ttlSec |-> POWERUP_DURATIONS(kind)]

\* update, the clocks: elapsed time, difficulty, grace and power-up timers
TickClock(s, dt, turn) ==
  [s EXCEPT !.elapsedSec = s.elapsedSec + dt,
            !.difficulty01 = clamp(s.elapsedSec + dt, 0, rampSec),
            !.spawnGraceSec = Max(0, s.spawnGraceSec - dt),
            !.activePowerup = updatePowerupTimers(s.activePowerup, dt),
            !.last = [NoCall EXCEPT !.op = "update", !.dt = dt, !.turn = turn]]

\* the speed update passes to the snake
SpeedTarget(difficulty, powerup) ==
  ((baseSpeed + (difficulty * (maxSpeed - baseSpeed)) \div rampSec)
     * (IF powerup.kind = "overdrive" THEN overdriveSpeedPct ELSE 100)) \div 100

\* the turn rate update passes to the snake
TurnRateFor(assist) == (turnRate * (100 + assist * assistPct)) \div 100

\* update, the move of the snake
TickSnake(s, dt, turn, assist) ==
  [s EXCEPT !.snake = SnakeUpdate(s.snake, dt, turn,
                                  SpeedTarget(s.difficulty01, s.activePowerup),
                                  TurnRateFor(assist))]

\* update, the magnet
TickMagnet(s, dt) ==
  IF s.activePowerup.kind = "magnet"
  THEN [s EXCEPT !.spawn = attractFoodsTo(s.spawn, s.snake.head,
                                          magnetStrength, dt)]
  ELSE s

\* update, the spawn system's tick
TickSpawn(s, dt) ==
  [s EXCEPT !.spawn = SpawnUpdate(s.spawn, dt, s.snake.head, s.snake.segments,
                                  s.difficulty01)]

\* the food count the spawn system's tick leaves, recorded for the call
NoteFoods(s) == [s EXCEPT !.last.foodsAfterSpawn = Len(s.spawn.foods)]

\* update, the scoring system's tick
TickScoring(s, dt) ==
  [s EXCEPT !.scoring =
     ScoringUpdate(
       setMultiplierBonus(s.scoring,
         IF s.activePowerup.kind = "overdrive" THEN overdriveBonus ELSE 0),
       dt)]

\* update that collects a food only for its onPickup callback (C20 fails on
\* it)
CollectFoodWhenObserved(s, food) ==
  IF food = 0 \/ "onPickup" \notin s.events THEN s
  ELSE Emit([s EXCEPT !.spawn = consumeFood(s.spawn, s.spawn.foods[food].id),
                      !.snake = SnakeGrow(s.snake, 1),
                      !.scoring = onFoodCollected(s.scoring),
                      !.last.ateFood = TRUE],
            "onPickup", [type |-> "pickup", kind |-> "food"])

\* CollectFood that grows the snake by two segments (C29 fails on it)
CollectFoodGrowsTwo(s, food) ==
  IF food = 0 THEN s
  ELSE Emit([s EXCEPT !.spawn = consumeFood(s.spawn, s.spawn.foods[food].id),
                      !.snake = SnakeGrow(s.snake, 2),
                      !.scoring = onFoodCollected(s.scoring),
                      !.last.ateFood = TRUE],
            "onPickup", [type |-> "pickup", kind |-> "food"])

\* update, the food at index food (0 for none) collected
CollectFood(s, food) ==
  IF food = 0 THEN s
  ELSE Emit([s EXCEPT !.spawn = consumeFood(s.spawn, s.spawn.foods[food].id),
                      !.snake = SnakeGrow(s.snake, 1),
                      !.scoring = onFoodCollected(s.scoring),
                      !.last.ateFood = TRUE],
            "onPickup", [type |-> "pickup", kind |-> "food"])

TickFood(s) == CollectFood(s, checkFoodCollision(s.snake.head, s.spawn.foods))

\* CollectPickup that puts an overdrive to work on the score at once (C30
\* fails on it)
CollectPickupBoostsAtOnce(s, pickup) ==
  IF pickup = 0 THEN s
  ELSE Emit([s EXCEPT
               !.spawn = consumePickup(s.spawn, s.spawn.pickups[pickup].id),
               !.activePowerup = activatePowerup(s.spawn.pickups[pickup].kind),
               !.scoring =
                 onPowerupCollected(
                   setMultiplierBonus(s.scoring,
                     IF s.spawn.pickups[pickup].kind = "overdrive"
                     THEN overdriveBonus ELSE 0)),
               !.last.tookPickup = s.spawn.pickups[pickup].kind],
            "onPickup",
            [type |-> "pickup", kind |-> s.spawn.pickups[pickup].kind])

\* update, the pickup at index pickup (0 for none) collected
CollectPickup(s, pickup) ==
  IF pickup = 0 THEN s
  ELSE Emit([s EXCEPT
               !.spawn = consumePickup(s.spawn, s.spawn.pickups[pickup].id),
               !.activePowerup = activatePowerup(s.spawn.pickups[pickup].kind),
               !.scoring = onPowerupCollected(s.scoring),
               !.last.tookPickup = s.spawn.pickups[pickup].kind],
            "onPickup",
            [type |-> "pickup", kind |-> s.spawn.pickups[pickup].kind])

TickPickup(s) ==
  CollectPickup(s, checkPickupCollision(s.snake.head, s.spawn.pickups))

\* TickCombo that reports a meal and nothing else (C31 fails on it)
TickComboOnFoodOnly(s, scoreBefore) ==
  IF s.last.ateFood
  THEN Emit(s, "onComboChanged",
            [type |-> "combo", combo |-> s.scoring.combo,
             multiplier |-> s.scoring.multiplier])
  ELSE s

\* update, the combo event against the scoring state before the tick
TickCombo(s, scoreBefore) ==
  IF s.scoring.combo # scoreBefore.combo
       \/ s.scoring.multiplier # scoreBefore.multiplier
  THEN Emit(s, "onComboChanged",
            [type |-> "combo", combo |-> s.scoring.combo,
             multiplier |-> s.scoring.multiplier])
  ELSE s

\* Collide that forgets the phase power-up (C2 fails on it)
CollideThroughPhase(s, selfHit, obstacleHit, phase, collisionsBlocked) ==
  IF (selfHit \/ obstacleHit) /\ ~collisionsBlocked
  THEN [s EXCEPT !.last.gameOver = TRUE,
                 !.last.selfHit = selfHit,
                 !.last.obstacleHit = obstacleHit]
  ELSE [s EXCEPT !.last.selfHit = selfHit,
                 !.last.obstacleHit = obstacleHit]

\* Collide that looks at the obstacles first (C28 fails on it)
CollideObstacleFirst(s, selfHit, obstacleHit, phase, collisionsBlocked) ==
  IF obstacleHit /\ ~phase /\ ~collisionsBlocked
  THEN Emit([s EXCEPT !.last.gameOver = TRUE,
                      !.last.selfHit = selfHit,
                      !.last.obstacleHit = obstacleHit],
            "onCollision", [type |-> "collision", kind |-> "obstacle"])
  ELSE IF selfHit /\ ~phase /\ ~collisionsBlocked
       THEN Emit([s EXCEPT !.last.gameOver = TRUE,
                           !.last.selfHit = selfHit],
                 "onCollision", [type |-> "collision", kind |-> "self"])
       ELSE [s EXCEPT !.last.selfHit = selfHit,
                      !.last.obstacleHit = obstacleHit]

\* update, the result of the tick given the two checks and the gating
Collide(s, selfHit, obstacleHit, phase, collisionsBlocked) ==
  IF selfHit /\ ~phase /\ ~collisionsBlocked
  THEN Emit([s EXCEPT !.last.gameOver = TRUE,
                      !.last.selfHit = selfHit],
            "onCollision", [type |-> "collision", kind |-> "self"])
  ELSE IF obstacleHit /\ ~phase /\ ~collisionsBlocked
       THEN Emit([s EXCEPT !.last.gameOver = TRUE,
                           !.last.selfHit = selfHit,
                           !.last.obstacleHit = obstacleHit],
                 "onCollision", [type |-> "collision", kind |-> "obstacle"])
       ELSE [s EXCEPT !.last.selfHit = selfHit,
                      !.last.obstacleHit = obstacleHit]

\* update, the collision gating and the two checks
TickCollision(s) ==
  Collide(s,
          checkSelfCollision(s.snake.head, s.snake.segments),
          checkObstacleCollision(s.snake.head, s.spawn.obstacles,
                                 s.elapsedSec) # 0,
          s.activePowerup.kind = "phase",
          s.spawnGraceSec > 0)

\* update(dt, frameInput): every field of the session after the tick
SessionUpdate(s, dt, turn, assist) ==
  TickCollision(
    TickCombo(
      TickPickup(
        TickFood(
          TickScoring(
            NoteFoods(
              TickSpawn(
                TickMagnet(
                  TickSnake(TickClock(s, dt, turn), dt, turn, assist),
                  dt),
                dt)),
            dt))),
      s.scoring))

\* the snake of reset(options) placed, the spawn system reset around it
ResetAround(s, placed) ==
  [scoring |-> ScoringReset(s.scoring),
   snake |-> placed,
   spawn |-> SpawnReset(s.spawn, placed.head, placed.segments),
   elapsedSec |-> 0, difficulty01 |-> 0,
   spawnGraceSec |-> START_GRACE_SEC, activePowerup |-> NoPowerup,
   events |-> s.events, last |-> [NoCall EXCEPT !.op = "reset"]]

\* reset(options): options is [startPosition, headingRad]
SessionReset(s, options) ==
  ResetAround(s, SnakeReset(s.snake, startLength, options.startPosition,
                            options.headingRad))

\* ------------------------------------------- game/game-session, snapshots
\* Objects are told apart by their address: at is the place of an object of
\* the session ([obj, index, field]), or New for an object made by the
\* expression at hand. fields holds an object's primitive values, position
\* the object its position field refers to, items the elements of an array.
New == [obj |-> "new", index |-> 0, field |-> ""]

\* the objects the session and its three systems hold
Objects(s) ==
  LET Vec(obj, i, v) ==
        [at |-> [obj |-> obj, index |-> i, field |-> "position"], fields |-> v]
      Node(obj, i, e) ==
        [at |-> [obj |-> obj, index |-> i, field |-> ""],
         fields |-> [f \in (DOMAIN e) \ {"position", "placement"} |-> e[f]],
         position |-> Vec(obj, i, e.position)]
      List(obj, list) ==
        [at |-> [obj |-> obj, index |-> 0, field |-> ""],
         items |-> [i \in 1..Len(list) |-> Node(obj, i, list[i])]]
  IN [head |-> Node("snake.head", 0, s.snake.head),
      segments |-> List("snake.segments", s.snake.segments),
      foods |-> List("spawn.foods", s.spawn.foods),
      pickups |-> List("spawn.pickups", s.spawn.pickups),
      obstacles |-> List("spawn.obstacles", s.spawn.obstacles),
      scoreState |-> [at |-> [obj |-> "scoring.scoreState", index |-> 0,
                              field |-> ""],
                      fields |-> s.scoring],
      activePowerup |-> [at |-> [obj |-> "activePowerup", index |-> 0,
                                 field |-> ""],
                         fields |-> s.activePowerup]]

\* { ...object }: a new object with the values and the references of the old
Spread(object) == [object EXCEPT !.at = New]

\* cloneVec3(v)
cloneVec3(v) ==
  [at |-> New, fields |-> [x |-> v.fields.x, y |-> v.fields.y, z |-> v.fields.z]]

\* cloneHead(head)
cloneHead(head) == [Spread(head) EXCEPT !.position = cloneVec3(head.position)]

\* cloneSegments(segments)
cloneSegments(segments) ==
  [at |-> New,
   items |-> [i \in DOMAIN segments.items |->
                [at |-> New,
                 fields |-> [id |-> segments.items[i].fields.id],
                 position |-> cloneVec3(segments.items[i].position)]]]

\* list.map((e) => ({ ...e })): the copies share the positions of the
\* originals (C19 fails on it)
CopyEntitiesShallow(list) ==
  [at |-> New,
   items |-> [i \in DOMAIN list.items |-> Spread(list.items[i])]]

\* list.map((e) => ({ ...e, position: { ...e.position } }))
CopyEntities(list) ==
  [at |-> New,
   items |-> [i \in DOMAIN list.items |->
                [Spread(list.items[i]) EXCEPT
                   !.position = Spread(list.items[i].position)]]]

\* getSnapshot(); scoring.state is { ...this.scoreState }, and activePowerup
\* null, hence no object of the session, when no power-up is active
getSnapshot(s) ==
  [head |-> cloneHead(Objects(s).head),
   segments |-> cloneSegments(Objects(s).segments),
   foods |-> CopyEntities(Objects(s).foods),
   pickups |-> CopyEntities(Objects(s).pickups),
   obstacles |-> CopyEntities(Objects(s).obstacles),
   score |-> Spread(Objects(s).scoreState),
   activePowerup |-> Spread(Objects(s).activePowerup),
   elapsedSec |-> s.elapsedSec,
   speed01 |-> clamp(((s.snake.head.speed - baseSpeed) * 1000)
                       \div (maxSpeed - baseSpeed), 0, 1000)]

\* the addresses of the objects a caller reaches from a snapshot: the head,
\* the score, the power-up, the arrays, the first and the last element of
\* each array, and the positions of these
SnapshotNodes(snapshot) ==
  LET Ends(list) ==
        UNION {{list.items[i].at, list.items[i].position.at} :
                 i \in {1, Len(list.items)} \cap DOMAIN list.items}
          \cup {list.at}
  IN {snapshot.head.at, snapshot.head.position.at, snapshot.score.at,
      snapshot.activePowerup.at}
       \cup Ends(snapshot.segments) \cup Ends(snapshot.foods)
       \cup Ends(snapshot.pickups) \cup Ends(snapshot.obstacles)

\* the session after a write to the object at an address: a position moved,
\* an array emptied, a value changed; a write to a New object leaves the
\* session alone
Poke(s, at) ==
  LET Moved(v) == [v EXCEPT !.x = IF v.x = 0 THEN 100 ELSE 0]
      Written(list) ==
        IF at.index = 0 THEN <<>>
        ELSE IF at.field = "position"
             THEN [list EXCEPT ![at.index].position = Moved(@)]
             ELSE [list EXCEPT ![at.index].id = @ + 1000]
  IN CASE at.obj = "snake.head" /\ at.field = "position" ->
            [s EXCEPT !.snake.head.position = Moved(@)]
       [] at.obj = "snake.head" /\ at.field = "" ->
            [s EXCEPT !.snake.head.headingRad = @ + 1000]
       [] at.obj = "snake.segments" ->
            [s EXCEPT !.snake.segments = Written(@)]
       [] at.obj = "spawn.foods" -> [s EXCEPT !.spawn.foods = Written(@)]
       [] at.obj = "spawn.pickups" -> [s EXCEPT !.spawn.pickups = Written(@)]
       [] at.obj = "spawn.obstacles" ->
            [s EXCEPT !.spawn.obstacles = Written(@)]
       [] at.obj = "scoring.scoreState" ->
            [s EXCEPT !.scoring.score = @ + 1000]
       [] at.obj = "activePowerup" ->
            [s EXCEPT !.activePowerup.ttlSec = @ + 1000]
       [] OTHER -> s

\* ------------------------------------------------ the multiplayer store
\* The store keeps its state in the module (forcedMemoryMode,
\* kvClientPromise), in globalThis (the memory store) and in the KV service.
\* Of a StoredPlayerState the store reads id, score and updatedAt; the other
\* fields travel with it unread and are left out. A set stands for the Set
\* of ids and for the Map of players: the players of StorePlayers have
\* different scores, so the order of iteration does not show in a sorted list.
STALE_MS == 20000

StorePlayers ==
  { [id |-> "a", score |-> 1, updatedAt |-> 0],
    [id |-> "b", score |-> 2, updatedAt |-> 10000] }

StoreIds == {p.id : p \in StorePlayers}

\* nowMs of listActivePlayers: before and after player a goes stale
StoreNows == {15000, 25000}

\* the environment: neither variable set, KV_REST_API_URL and
\* KV_REST_API_TOKEN set, or KV_REDIS_URL alone
StoreEnvs == {"none", "kv", "redis"}

\* getMemoryStore() at its first call, and a KV service without keys
NoPlayers == [playerIds |-> {}, players |-> {}]

\* the module after loading
StoreNew(env) ==
  [env |-> env, forcedMemoryMode |-> FALSE, kvClientPromise |-> "unset",
   memory |-> NoPlayers, kv |-> NoPlayers, calls |-> <<>>]

isRemoteStorageConfigured(st) == st.env # "none"

getStorageMode(st) ==
  IF st.forcedMemoryMode THEN "memory"
  ELSE IF st.env = "kv" THEN "kv"
  ELSE IF st.env = "redis" THEN "redis"
  ELSE "memory"

\* active.sort((a, b) => b.score - a.score)
RECURSIVE SortByScore(_)
SortByScore(players) ==
  IF players = {} THEN <<>>
  ELSE LET top == CHOOSE p \in players : \A q \in players : q.score <= p.score
       IN <<top>> \o SortByScore(players \ {top})

\* getKvClient(), up to the promise it returns
getKvClient(st) ==
  IF st.forcedMemoryMode \/ ~isRemoteStorageConfigured(st)
  THEN [store |-> st, promise |-> "null"]
  ELSE IF st.kvClientPromise = "unset"
       THEN [store |-> [st EXCEPT !.kvClientPromise = "pending"],
             promise |-> "shared"]
       ELSE [store |-> st, promise |-> "shared"]

\* an exported operation called: runWithFallback up to its first await.
\* The call keeps its arguments and where it stands. promise is what
\* getKvClient() returned: "null" for a promise of null, "shared" for
\* kvClientPromise. result is a list: empty for void and for null, the
\* player for a player found, the players for a listing.
StoreBegin(st, op, id, player, nowMs) ==
  LET got == getKvClient(st)
  IN [got.store EXCEPT
        !.calls =
          Append(@, [op |-> op, id |-> id, player |-> player, nowMs |-> nowMs,
                     promise |-> got.promise, pc |-> "await", step |-> 0,
                     ids |-> {}, found |-> {}, via |-> "", result |-> <<>>,
                     outcome |-> "pending", failed |-> FALSE,
                     forcedAtStart |-> st.forcedMemoryMode,
                     memoryAt |-> NoPlayers])]

\* what the promise of call c holds: "pending", "client" or "null"
ClientOf(st, c) ==
  IF c.promise = "null" THEN "null" ELSE st.kvClientPromise

\* the memoryOp of each operation, on the memory store m
memoryOp(m, c) ==
  CASE c.op = "upsertPlayer" ->
         [memory |-> [playerIds |-> m.playerIds \cup {c.player.id},
                      players |-> {p \in m.players : p.id # c.player.id}
                                    \cup {c.player}],
          result |-> <<>>]
    [] c.op = "removePlayer" ->
         [memory |-> [playerIds |-> m.playerIds \ {c.id},
                      players |-> {p \in m.players : p.id # c.id}],
          result |-> <<>>]
    [] c.op = "getPlayer" ->
         [memory |-> m,
          result |-> SortByScore({p \in m.players : p.id = c.id})]
    [] c.op = "listActivePlayers" ->
         LET active == {p \in m.players :
                          /\ p.id \in m.playerIds
                          /\ ~(c.nowMs - p.updatedAt > STALE_MS)}
             staleIds == m.playerIds \ {p.id : p \in active}
         IN [memory |-> [playerIds |-> m.playerIds \ staleIds,
                         players |-> {p \in m.players : p.id \notin staleIds}],
             result |-> SortByScore(active)]

\* call i returns result
StoreReturn(st, i, via, result) ==
  [st EXCEPT !.calls[i] = [@ EXCEPT !.pc = "done", !.via = via,
                                    !.result = result,
                                    !.outcome = "returned"]]

\* return await memoryOp(): memoryOp has no await, it runs in one piece
RunMemoryOp(st, i) ==
  LET ran == memoryOp(st.memory, st.calls[i])
  IN StoreReturn([st EXCEPT !.memory = ran.memory,
                            !.calls[i].memoryAt = st.memory],
                 i, "memory", ran.result)

\* runWithFallback after await getKvClient(): with a client it starts
\* kvOp, without one it runs memoryOp
ClientResolved(st, i) ==
  IF ClientOf(st, st.calls[i]) = "client"
  THEN [st EXCEPT !.calls[i].pc = "kv", !.calls[i].step = 1]
  ELSE RunMemoryOp(st, i)

\* runWithFallback without its try and catch (C27 fails on it)
KvOpThrewUncaught(st, i) ==
  [st EXCEPT !.calls[i] = [@ EXCEPT !.pc = "done", !.failed = TRUE,
                                    !.outcome = "rejected"]]

\* a call of kvOp threw: the catch of runWithFallback, then memoryOp
KvOpThrew(st, i) ==
  RunMemoryOp([st EXCEPT !.forcedMemoryMode = TRUE, !.calls[i].failed = TRUE],
              i)

\* the next request of kvOp answered by the service. The reads of
\* Promise.all in listActivePlayers are taken together, and so are its
\* removals.
KvOpAnswered(st, i) ==
  LET c == st.calls[i]
      kv == st.kv
  IN CASE c.op = "upsertPlayer" /\ c.step = 1 ->
            [st EXCEPT !.kv.players = {p \in kv.players : p.id # c.player.id}
                                        \cup {c.player},
                       !.calls[i].step = 2]
       [] c.op = "upsertPlayer" /\ c.step = 2 ->
            StoreReturn([st EXCEPT !.kv.playerIds = @ \cup {c.player.id}],
                        i, "kv", <<>>)
       [] c.op = "removePlayer" /\ c.step = 1 ->
            [st EXCEPT !.kv.playerIds = @ \ {c.id}, !.calls[i].step = 2]
       [] c.op = "removePlayer" /\ c.step = 2 ->
            StoreReturn([st EXCEPT !.kv.players = {p \in @ : p.id # c.id}],
                        i, "kv", <<>>)
       [] c.op = "getPlayer" ->
            StoreReturn(st, i, "kv",
                        SortByScore({p \in kv.players : p.id = c.id}))
       [] c.op = "listActivePlayers" /\ c.step = 1 ->
            IF kv.playerIds = {} THEN StoreReturn(st, i, "kv", <<>>)
            ELSE [st EXCEPT !.calls[i].ids = kv.playerIds,
                            !.calls[i].step = 2]
       [] c.op = "listActivePlayers" /\ c.step = 2 ->
            LET active == {p \in kv.players :
                             /\ p.id \in c.ids
                             /\ ~(c.nowMs - p.updatedAt > STALE_MS)}
                staleIds == c.ids \ {p.id : p \in active}
            IN IF staleIds = {}
               THEN StoreReturn(st, i, "kv", SortByScore(active))
               ELSE [st EXCEPT !.calls[i].found = active,
                               !.calls[i].ids = staleIds,
                               !.calls[i].step = 3]
       [] c.op = "listActivePlayers" /\ c.step = 3 ->
            StoreReturn(
              [st EXCEPT !.kv = [playerIds |-> kv.playerIds \ c.ids,
                                 players |-> {p \in kv.players :
                                                p.id \notin c.ids}]],
              i, "kv", SortByScore(c.found))

\* ------------------------------------------------------------------ inputs
\* the fixed step the caller passes to GameSession.update, in tenths of a
\* second
DtChoices == {6}

\* frameInput: straight, a turn, and an assisted turn the other way
FrameInputs ==
  { [turn |-> 0, assist |-> 0],
    [turn |-> 1, assist |-> 0],
    [turn |-> -1, assist |-> 1] }

\* reset without options, the seam corner of the spec's scenario, and a start
\* 12.5 units short of the centre of the world
SpawnOptions ==
  { [startPosition |-> DefaultStart, headingRad |-> 0],
    [startPosition |-> Vec3(3900, spawnY, 3900), headingRad |-> 2356],
    [startPosition |-> Vec3(-1250, spawnY, 0), headingRad |-> 0] }

\* the steps passed to ScoringSystem.update: half the combo window, and a
\* step that does not divide it
ScoringDts == {comboWindowSec \div 2, 30}

\* the bonus passed to setMultiplierBonus: none and overdrive's
BonusChoices == {0, overdriveBonus}

\* the lengths passed to SnakeController.reset: below the minimum of two,
\* the session's, and above the cap
SnakeLengths == {1, startLength, maxSegments + 60}

\* the amounts passed to SnakeController.grow
GrowAmounts == {-1, 0, 1, maxSegments + 60}

\* the turns passed to SnakeController.update
SnakeTurns == {0, 1}

\* a start 15 units behind the first position StraightRun draws for an
\* obstacle, across the seam of x and heading at it
CorridorStart ==
  [startPosition |-> Vec3(3540, spawnY, -2520), headingRad |-> 0]

\* a start 15.8 units behind the first position StraightRun draws for the
\* ninth obstacle, 4 units to its side
GrowthStart ==
  [startPosition |-> Vec3(-4100, spawnY, -400), headingRad |-> 0]

\* the steps passed to SpawnSystem.update: the session's, and one long
\* enough for the power-up timer to fire in every call
SpawnDts == {6, 180}

\* hist: whether reset was ever called, whether every tick since the reset
\* had turn = 0, the time update has counted since the last food (-1 before
\* the first, counted up to the combo window), and the sizes and the score
\* before the last call, the power-up that was active before it, and the
\* spawn system's next id, entity ids, pickup count and power-up timer
\* before it
NoHist == [started |-> FALSE, straight |-> TRUE, sinceFood |-> -1,
           obstaclesBefore |-> 0, segmentsBefore |-> 0, foodsBefore |-> 0,
           scoreBefore |-> 0, powerupBefore |-> NoPowerup,
           nextIdBefore |-> 1, idsBefore |-> {}, pickupsBefore |-> 0,
           timerBefore |-> 0, scoringBefore |-> ScoringNew,
           oldestBefore |-> 0, coveredBefore |-> FALSE]

NoBudget == [ticks |-> 0, turns |-> 0, resets |-> 0, ops |-> 0]

\* the caller holds no snapshot
NoHeld == [taken |-> FALSE]

\* the time since the last food, after dt more without one
Since(sinceFood, dt) ==
  IF sinceFood < 0 THEN -1 ELSE Min(comboWindowSec, sinceFood + dt)

\* the ids of the foods, pickups and obstacles of a spawn system
EntityIds(sp) ==
  {sp.foods[i].id : i \in 1..Len(sp.foods)}
    \cup {sp.pickups[i].id : i \in 1..Len(sp.pickups)}
    \cup {sp.obstacles[i].id : i \in 1..Len(sp.obstacles)}

\* the foods, pickups and obstacles of a spawn system, each with the distance
\* findSafePosition keeps a later candidate away from it
SpawnedEntities(sp) ==
  {[id |-> sp.foods[i].id, position |-> sp.foods[i].position,
    placement |-> sp.foods[i].placement, keepOut |-> minFoodDistance] :
     i \in 1..Len(sp.foods)}
    \cup {[id |-> sp.pickups[i].id, position |-> sp.pickups[i].position,
            placement |-> sp.pickups[i].placement,
            keepOut |-> minPickupDistance] : i \in 1..Len(sp.pickups)}
    \cup {[id |-> sp.obstacles[i].id, position |-> sp.obstacles[i].position,
            placement |-> sp.obstacles[i].placement,
            keepOut |-> sp.obstacles[i].radius + minObstacleDistance] :
             i \in 1..Len(sp.obstacles)}

\* the oldest sample of the trail lies at or beyond the lookback of the last
\* segment: updateSegmentsFromTrail clamps no segment to it
TrailCovers(sn) ==
  /\ Len(sn.trail) > 0
  /\ sn.trail[1].distance
       <= sn.totalDistance - Len(sn.segments) * segmentSpacing

\* hist with the sizes and the score of the state the call starts from
Before(h) ==
  [h EXCEPT !.obstaclesBefore = Len(spawn.obstacles),
            !.segmentsBefore = Len(snake.segments),
            !.foodsBefore = Len(spawn.foods),
            !.scoreBefore = scoring.score,
            !.powerupBefore = activePowerup,
            !.nextIdBefore = spawn.nextId,
            !.idsBefore = EntityIds(spawn),
            !.pickupsBefore = Len(spawn.pickups),
            !.timerBefore = spawn.powerupTimerSec,
            !.scoringBefore = scoring,
            !.oldestBefore = IF Len(snake.trail) > 0
                             THEN snake.trail[1].distance ELSE 0,
            !.coveredBefore = TrailCovers(snake)]

\* --------------------------------------------------------- core/game-loop
\* Times are in thirds of a millisecond: fixedStepSec is 1 / 60 s.  now is
\* performance.now(); frames holds the handles requestAnimationFrame has
\* given out and the browser has neither run nor cancelled.  The browser's
\* clock does not run backwards: a frame's timestamp is at least the time
\* read by start().
LoopNew ==
  [running |-> FALSE, lastTimeMs |-> 0, accumulatorSec |-> 0, rafId |-> 0,
   now |-> 0, frames |-> {}, handed |-> 0]

\* requestAnimationFrame(this.frame): the next handle
LoopRequest(l) ==
  [l EXCEPT !.rafId = l.handed + 1, !.handed = l.handed + 1,
            !.frames = l.frames \cup {l.handed + 1}]

\* start()
LoopStart(l) ==
  IF l.running THEN l
  ELSE LoopRequest([l EXCEPT !.running = TRUE, !.lastTimeMs = l.now])

\* stop()
LoopStop(l) ==
  IF ~l.running THEN l
  ELSE [l EXCEPT !.running = FALSE, !.frames = l.frames \ {l.rafId}]

\* while (accumulatorSec >= fixedStepSec): the accumulator left and the
\* number of calls of callbacks.update
RECURSIVE LoopSteps(_, _)
LoopSteps(accumulatorSec, updates) ==
  IF accumulatorSec >= fixedStepSec
  THEN LoopSteps(accumulatorSec - fixedStepSec, updates + 1)
  ELSE [accumulatorSec |-> accumulatorSec, updates |-> updates]

\* the rest of frame(nowMs) once the frame's delta is known: stops says which
\* callback calls stop(), "update" (the first one), "render" or "none"
LoopRun(l, nowMs, rawDeltaSec, frameDeltaSec, stops) ==
  LET steps == LoopSteps(l.accumulatorSec + frameDeltaSec, 0)
      stopped == \/ stops = "update" /\ steps.updates > 0
                 \/ stops = "render"
      after == [l EXCEPT !.lastTimeMs = nowMs,
                         !.accumulatorSec = steps.accumulatorSec]
  IN [loop |-> LoopRequest(IF stopped THEN LoopStop(after) ELSE after),
      updates |-> steps.updates, rendered |-> TRUE,
      rawDeltaSec |-> rawDeltaSec, frameDeltaSec |-> frameDeltaSec]

\* frame(nowMs) without the limit of 0.25 s (C37 fails on it)
LoopFrameUnclamped(l, handle, nowMs, stops) ==
  IF ~l.running
  THEN [loop |-> [l EXCEPT !.frames = l.frames \ {handle}],
        updates |-> 0, rendered |-> FALSE,
        rawDeltaSec |-> nowMs - l.lastTimeMs, frameDeltaSec |-> 0]
  ELSE LoopRun([l EXCEPT !.frames = l.frames \ {handle}], nowMs,
               nowMs - l.lastTimeMs, nowMs - l.lastTimeMs, stops)

\* frame(nowMs), run by the browser for the handle
LoopFrame(l, handle, nowMs, stops) ==
  IF ~l.running
  THEN [loop |-> [l EXCEPT !.frames = l.frames \ {handle}],
        updates |-> 0, rendered |-> FALSE,
        rawDeltaSec |-> nowMs - l.lastTimeMs, frameDeltaSec |-> 0]
  ELSE LoopRun([l EXCEPT !.frames = l.frames \ {handle}], nowMs,
               nowMs - l.lastTimeMs,
               Min(maxFrameDeltaSec, nowMs - l.lastTimeMs), stops)

\* ------------------------------------------------------------------- main
\* state and stateMachine as main.ts declares them, lastSnapshot (whether it
\* is set), and two notes on what ran: via, the handler that ran last, and
\* ran, whether it called session.update
AppNew ==
  [state |-> "boot", machine |-> "boot", lastSnapshot |-> FALSE,
   via |-> "none", ran |-> FALSE]

\* GameStateMachine.set(nextState)
MachineSet(machine, nextState) ==
  IF nextState = machine THEN machine ELSE nextState

\* setState(next): the state, less the menus and the HUD it shows
setState(a, next) ==
  [a EXCEPT !.state = next, !.machine = MachineSet(a.machine, next)]

\* the keydown handler, the key being Escape
OnEscape(a) ==
  IF a.state = "playing" THEN setState(a, "paused")
  ELSE IF a.state = "paused" THEN setState(a, "playing")
  ELSE a

\* the menu's onResume and onMainMenu
OnMenu(a, button) ==
  IF button = "onResume"
  THEN IF a.machine = "paused" THEN setState(a, "playing") ELSE a
  ELSE setState(a, "menu")

\* __snake3d.forceGameOver()
forceGameOver(a) ==
  IF ~a.lastSnapshot THEN a ELSE setState(a, "gameover")

\* the loop's update callback with no look at the state (C38 fails on it)
UpdatesInAnyState(a) == TRUE

\* the loop's update callback: whether it goes on to session.update
UpdatesSession(a) == a.state = "playing"

\* ------------------------------------------------- net/multiplayer-client
\* Times are in milliseconds (syncAccumulatorSec too), ids and names are
\* strings with "" for null and for the empty name, a player is its id.
\* calls holds the calls of join() and sync() that wait for an answer of
\* safeFetch: op is the request waited for, within tells a join() called by
\* sync() from one called by the user.  The request of leave() is not
\* waited for and its answer is dropped.  Three notes for the claims: left,
\* whether leave() has run and no join() of the user has succeeded since;
\* sinceSync, the time ticked since the last sync was started; early,
\* whether a sync was ever started on less than syncIntervalMs of it.
ClientNew ==
  [selfId |-> "", selfName |-> "", offlineMode |-> FALSE,
   syncAccumulatorSec |-> 0, syncIntervalMs |-> 120, inFlight |-> FALSE,
   lastError |-> "", remotePlayers |-> <<>>, calls |-> <<>>,
   left |-> FALSE, sinceSync |-> 0, early |-> FALSE]

\* normalizePlayers(value, selfId), for a list of distinct players in the
\* order of their scores
normalizePlayers(value, selfId) ==
  LET Other(id) == ~(selfId # "" /\ id = selfId)
  IN SelectSeq(value, Other)

\* join(name) up to its await; names come sanitized
JoinBegin(c, name, within) ==
  IF name = "" THEN c
  ELSE [c EXCEPT !.calls = Append(c.calls, [op |-> "join", name |-> name,
                                            within |-> within])]

\* the promise of sync() settles: the finally of tick()
SyncFinally(c) == [c EXCEPT !.inFlight = FALSE]

\* join(name) after its await, for the call at idx and the response; local
\* is isLocalRuntime()
JoinSettle(c, idx, response, local) ==
  LET call == c.calls[idx]
      rest == [c EXCEPT !.calls = Without(c.calls, idx)]
      failed == ~response.ok \/ response.self = ""
      offline == failed /\ local
                   /\ response.error \in {"network_unreachable", "http_404"}
      after ==
        IF offline
        THEN [rest EXCEPT !.selfId = "local", !.selfName = call.name,
                          !.offlineMode = TRUE, !.remotePlayers = <<>>,
                          !.lastError = "", !.syncAccumulatorSec = 0]
        ELSE IF failed
        THEN [rest EXCEPT !.offlineMode = FALSE, !.remotePlayers = <<>>,
                          !.lastError = response.error]
        ELSE [rest EXCEPT
                !.selfId = response.self, !.selfName = call.name,
                !.offlineMode = FALSE,
                !.syncIntervalMs = Max(70, Min(300, response.tickRateMs)),
                !.remotePlayers =
                   normalizePlayers(response.players, response.self),
                !.lastError = "", !.syncAccumulatorSec = 0]
      ok == offline \/ ~failed
  IN IF call.within = "sync"
     THEN SyncFinally([after EXCEPT
                         !.lastError = IF ok THEN "" ELSE response.error])
     ELSE [after EXCEPT !.left = c.left /\ ~ok]

\* leave()
leave(c) ==
  IF c.selfId = ""
  THEN [c EXCEPT !.remotePlayers = <<>>, !.offlineMode = FALSE,
                 !.left = TRUE]
  ELSE [c EXCEPT !.selfId = "", !.selfName = "", !.offlineMode = FALSE,
                 !.remotePlayers = <<>>, !.syncAccumulatorSec = 0,
                 !.inFlight = FALSE, !.left = TRUE]

\* tick(dt, state), with sync(state) up to its await
tick(c, dt) ==
  LET ticked == [c EXCEPT !.sinceSync = c.sinceSync + dt]
      added == [ticked EXCEPT
                  !.syncAccumulatorSec = c.syncAccumulatorSec + dt]
  IN IF c.selfId = "" THEN ticked
     ELSE IF c.offlineMode THEN ticked
     ELSE IF c.inFlight THEN added
     ELSE IF added.syncAccumulatorSec < c.syncIntervalMs THEN added
     ELSE [added EXCEPT
             !.syncAccumulatorSec = 0, !.inFlight = TRUE,
             !.calls = Append(c.calls, [op |-> "sync", name |-> "",
                                        within |-> "sync"]),
             !.sinceSync = 0,
             !.early = c.early \/ ticked.sinceSync < c.syncIntervalMs]

\* sync(state) after its await, for the call at idx and the response
SyncSettle(c, idx, response) ==
  LET rest == [c EXCEPT !.calls = Without(c.calls, idx)]
  IN IF ~response.ok
     THEN IF response.error = "unknown_player" /\ c.selfName # ""
          THEN JoinBegin([rest EXCEPT !.selfId = "", !.remotePlayers = <<>>],
                         c.selfName, "sync")
          ELSE SyncFinally([rest EXCEPT !.lastError = response.error])
     ELSE SyncFinally([rest EXCEPT
            !.remotePlayers = normalizePlayers(response.players, c.selfId),
            !.lastError = ""])

\* ----------------------------------------------------- the session: Spec
Init ==
  /\ scoring = ScoringNew
  /\ snake = SnakeNew
  /\ \E src \in 1..Len(RandomScripts) : spawn = SpawnNew(src)
  /\ elapsedSec = 0
  /\ difficulty01 = 0
  /\ spawnGraceSec = START_GRACE_SEC
  /\ activePowerup = NoPowerup
  /\ last = NoCall
  /\ hist = NoHist
  /\ budget = NoBudget
  /\ held = NoHeld
  /\ store = StoreNew("none")
  /\ loop = LoopNew
  /\ app = AppNew
  /\ client = ClientNew

Assign(next) ==
  /\ scoring' = next.scoring
  /\ snake' = next.snake
  /\ spawn' = next.spawn
  /\ elapsedSec' = next.elapsedSec
  /\ difficulty01' = next.difficulty01
  /\ spawnGraceSec' = next.spawnGraceSec
  /\ activePowerup' = next.activePowerup
  /\ last' = next.last

\* session.reset(options): the caller resets a new session, and a session
\* whose last tick was terminal
Reset ==
  /\ ~hist.started \/ last.gameOver
  /\ budget.resets <= MaxResets
  /\ \E options \in SpawnOptions :
       \E next \in {SessionReset(Session, options)} : Assign(next)
  /\ hist' = Before([NoHist EXCEPT !.started = TRUE])
  /\ budget' = [budget EXCEPT !.resets = budget.resets + 1]
  /\ UNCHANGED <<held, store, loop, app, client>>

\* session.update(dt, frameInput)
Update ==
  /\ hist.started
  /\ budget.ticks < MaxTicks
  /\ \E dt \in DtChoices, input \in FrameInputs :
       /\ input.turn # 0 =>
            /\ budget.turns < MaxTurns
            /\ budget.turns = 0 \/ last.turn # 0
       /\ \E next \in {SessionUpdate(Session, dt, input.turn, input.assist)} :
          /\ Assign(next)
          /\ hist' = Before([hist EXCEPT
                        !.straight = hist.straight /\ input.turn = 0,
                        !.sinceFood = IF next.last.ateFood THEN 0
                                      ELSE Since(hist.sinceFood, dt)])
          /\ budget' = [budget EXCEPT
                          !.ticks = budget.ticks + 1,
                          !.turns = budget.turns
                                      + (IF input.turn # 0 THEN 1 ELSE 0)]
  /\ UNCHANGED <<held, store, loop, app, client>>

Next == Reset \/ Update

Spec == Init /\ [][Next]_vars

\* ------------------------------------- the scoring system: ScoringSpec
\* the calls of ScoringSystem's interface in any order; of hist only
\* sinceFood is kept
ScoringCall(op, dt, since) ==
  /\ last' = [NoCall EXCEPT !.op = op, !.dt = dt]
  /\ hist' = [hist EXCEPT !.sinceFood = since]
  /\ UNCHANGED <<snake, spawn, elapsedSec, difficulty01, spawnGraceSec,
                 activePowerup, budget, held, store, loop, app, client>>

\* scoring.update(dt)
ScoringTick ==
  \E dt \in ScoringDts :
    /\ scoring' = ScoringUpdate(scoring, dt)
    /\ ScoringCall("scoring.update", dt, Since(hist.sinceFood, dt))

\* scoring.setMultiplierBonus(bonus)
ScoringBonus ==
  \E bonus \in BonusChoices :
    /\ scoring' = setMultiplierBonus(scoring, bonus)
    /\ ScoringCall("scoring.setMultiplierBonus", 0, hist.sinceFood)

\* scoring.onFoodCollected()
ScoringFood ==
  /\ scoring.combo < MaxCombo
  /\ scoring.score < MaxScore
  /\ scoring' = onFoodCollected(scoring)
  /\ ScoringCall("scoring.onFoodCollected", 0, 0)

\* scoring.onPowerupCollected()
ScoringPowerup ==
  /\ scoring.score < MaxScore
  /\ scoring' = onPowerupCollected(scoring)
  /\ ScoringCall("scoring.onPowerupCollected", 0, hist.sinceFood)

\* scoring.reset()
ScoringClear ==
  /\ scoring' = ScoringReset(scoring)
  /\ ScoringCall("scoring.reset", 0, -1)

ScoringNext ==
  ScoringTick \/ ScoringBonus \/ ScoringFood \/ ScoringPowerup \/ ScoringClear

ScoringSpec == Init /\ [][ScoringNext]_vars

\* ------------------------------------- the snake controller: SnakeSpec
\* the calls of SnakeController's interface in any order
SnakeCall(op, amount) ==
  /\ last' = [NoCall EXCEPT !.op = op, !.amount = amount]
  /\ hist' = [hist EXCEPT !.started = hist.started \/ op = "snake.reset",
                          !.segmentsBefore = Len(snake.segments)]
  /\ budget' = [budget EXCEPT !.ops = budget.ops + 1]
  /\ UNCHANGED <<scoring, spawn, elapsedSec, difficulty01, spawnGraceSec,
                 activePowerup, held, store, loop, app, client>>

\* snake.reset(startLength, startPosition, startHeadingRad)
SnakePlace ==
  /\ budget.ops < MaxSnakeOps
  /\ \E length \in SnakeLengths, options \in SpawnOptions :
       /\ snake' = SnakeReset(snake, length, options.startPosition,
                              options.headingRad)
       /\ SnakeCall("snake.reset", length)

\* snake.grow(amount)
SnakeExtend ==
  /\ budget.ops < MaxSnakeOps
  /\ \E amount \in GrowAmounts :
       /\ snake' = SnakeGrow(snake, amount)
       /\ SnakeCall("snake.grow", amount)

\* snake.update(dt, inputTurn, targetSpeed, turnRate)
SnakeMove ==
  /\ budget.ops < MaxSnakeOps
  /\ \E dt \in DtChoices, turn \in SnakeTurns :
       /\ snake' = SnakeUpdate(snake, dt, turn, baseSpeed, turnRate)
       /\ SnakeCall("snake.update", 0)

SnakeNext == SnakePlace \/ SnakeExtend \/ SnakeMove

SnakeSpec == Init /\ [][SnakeNext]_vars

\* ------------------------------------------- the spawn system: SpawnSpec
\* the calls of SpawnSystem's interface in any order, around a snake placed
\* as the session places it; elapsedSec and difficulty01 are the context's
SpawnCall(op, dt) ==
  /\ last' = [NoCall EXCEPT !.op = op, !.dt = dt]
  /\ budget' = [budget EXCEPT !.ops = budget.ops + 1,
                              !.resets = IF op = "spawn.reset"
                                         THEN budget.resets + 1
                                         ELSE budget.resets]
  /\ UNCHANGED <<scoring, spawnGraceSec, activePowerup, held, store, loop, app, client>>

\* spawn.reset(head, segments) around a snake just reset: the first with
\* any of the start options, a later one at the default start
SpawnPlace ==
  /\ budget.ops < MaxSpawnOps
  /\ budget.resets <= MaxResets
  /\ \E options \in IF hist.started
                     THEN {[startPosition |-> DefaultStart, headingRad |-> 0]}
                     ELSE SpawnOptions \cup {CorridorStart, GrowthStart} :
       \E placed \in {SnakeReset(snake, startLength, options.startPosition,
                                 options.headingRad)} :
         /\ snake' = placed
         /\ spawn' = SpawnReset(spawn, placed.head, placed.segments)
  /\ elapsedSec' = 0
  /\ difficulty01' = 0
  /\ hist' = Before([NoHist EXCEPT !.started = TRUE])
  /\ SpawnCall("spawn.reset", 0)

\* spawn.update(dt, context)
SpawnTick ==
  /\ hist.started
  /\ budget.ops < MaxSpawnOps
  /\ \E dt \in SpawnDts :
       /\ elapsedSec' = elapsedSec + dt
       /\ difficulty01' = clamp(elapsedSec + dt, 0, rampSec)
       /\ spawn' = SpawnUpdate(spawn, dt, snake.head, snake.segments,
                               clamp(elapsedSec + dt, 0, rampSec))
       /\ SpawnCall("spawn.update", dt)
  /\ hist' = Before(hist)
  /\ UNCHANGED snake

\* spawn.consumeFood(foodId) of the oldest or the newest food
SpawnEat ==
  /\ hist.started
  /\ budget.ops < MaxSpawnOps
  /\ \E i \in {1, Len(spawn.foods)} \cap (1..Len(spawn.foods)) :
       spawn' = consumeFood(spawn, spawn.foods[i].id)
  /\ hist' = Before(hist)
  /\ SpawnCall("spawn.consumeFood", 0)
  /\ UNCHANGED <<snake, elapsedSec, difficulty01>>

\* spawn.consumePickup(pickupId)
SpawnTake ==
  /\ hist.started
  /\ budget.ops < MaxSpawnOps
  /\ \E i \in 1..Len(spawn.pickups) :
       spawn' = consumePickup(spawn, spawn.pickups[i].id)
  /\ hist' = Before(hist)
  /\ SpawnCall("spawn.consumePickup", 0)
  /\ UNCHANGED <<snake, elapsedSec, difficulty01>>

\* spawn.attractFoodsTo(head, strength, dt)
SpawnPull ==
  /\ hist.started
  /\ budget.ops < MaxSpawnOps
  /\ spawn.foods # <<>>
  /\ \E dt \in DtChoices :
       /\ spawn' = attractFoodsTo(spawn, snake.head, magnetStrength, dt)
       /\ SpawnCall("spawn.attractFoodsTo", dt)
  /\ hist' = Before(hist)
  /\ UNCHANGED <<snake, elapsedSec, difficulty01>>

\* the snake of the context moves on between two calls
SpawnHeadMoves ==
  /\ hist.started
  /\ budget.ops < MaxSpawnOps
  /\ \E dt \in DtChoices :
       /\ snake' = SnakeUpdate(snake, dt, 0,
                               SpeedTarget(difficulty01, NoPowerup),
                               TurnRateFor(0))
       /\ SpawnCall("snake.update", dt)
  /\ hist' = Before(hist)
  /\ UNCHANGED <<spawn, elapsedSec, difficulty01>>

SpawnNext ==
  SpawnPlace \/ SpawnTick \/ SpawnEat \/ SpawnTake \/ SpawnPull
    \/ SpawnHeadMoves

SpawnSpec == Init /\ [][SpawnNext]_vars

\* --------------------------------------- the power-up timer: PowerupSpec
\* the steps passed to update, in tenths of a second
PowerupDts == {1, 6, 25}

\* the pickup a tick collects: none, or one of a kind
PickupChoices == {"none", "overdrive", "phase", "magnet"}

\* what a tick of update does to the active power-up: updatePowerupTimers,
\* and activatePowerup when the head collects a pickup
PowerupTick ==
  /\ \E dt \in PowerupDts, kind \in PickupChoices :
       /\ activePowerup' =
            IF kind = "none" THEN updatePowerupTimers(activePowerup, dt)
            ELSE activatePowerup(kind)
       /\ last' = [NoCall EXCEPT !.op = "powerup.tick", !.dt = dt,
                                 !.tookPickup = kind]
  /\ hist' = Before(hist)
  /\ UNCHANGED <<scoring, snake, spawn, elapsedSec, difficulty01,
                 spawnGraceSec, budget, held, store, loop, app, client>>

PowerupSpec == Init /\ [][PowerupTick]_vars

\* ------------------------------------------ world/torus-space: TorusSpec
\* the sizes passed to wrapScalar and torusDelta taken alone: an odd one, an
\* even one, and that of the tests
TorusSizes == {5, 8, 80}

\* wrapScalar(value, size), one call a run
WrapCall ==
  /\ last.op = "new"
  /\ \E value \in -MaxCoord..MaxCoord, size \in TorusSizes :
       last' = [op |-> "wrapScalar", value |-> value, size |-> size,
                result |-> wrapScalar(value, size)]
  /\ UNCHANGED <<scoring, snake, spawn, elapsedSec, difficulty01,
                 spawnGraceSec, activePowerup, hist, budget, held, store, loop, app, client>>

\* torusDelta(from, to, size), one call a run
DeltaCall ==
  /\ last.op = "new"
  /\ \E from \in -MaxCoord..MaxCoord, to \in -MaxCoord..MaxCoord,
        size \in TorusSizes :
       last' = [op |-> "torusDelta", from |-> from, to |-> to, size |-> size,
                result |-> torusDelta(from, to, size)]
  /\ UNCHANGED <<scoring, snake, spawn, elapsedSec, difficulty01,
                 spawnGraceSec, activePowerup, hist, budget, held, store, loop, app, client>>

\* the values of t passed to torusLerp, as num / den
LerpSteps == {<<0, 1>>, <<1, 4>>, <<1, 2>>, <<1, 1>>}

\* torusLerp(a, b, t, size, size), one call a run: a and b mirror each other
\* in x and z
LerpCall ==
  /\ last.op = "new"
  /\ \E from \in -MaxCoord..MaxCoord, to \in -MaxCoord..MaxCoord,
        size \in TorusSizes, t \in LerpSteps :
       last' = [op |-> "torusLerp", a |-> Vec3(from, spawnY, to),
                b |-> Vec3(to, spawnY, from), num |-> t[1], den |-> t[2],
                size |-> size,
                result |-> torusLerp(Vec3(from, spawnY, to),
                                     Vec3(to, spawnY, from),
                                     t[1], t[2], size, size)]
  /\ UNCHANGED <<scoring, snake, spawn, elapsedSec, difficulty01,
                 spawnGraceSec, activePowerup, hist, budget, held, store, loop, app, client>>

TorusNext == WrapCall \/ DeltaCall \/ LerpCall

TorusSpec == Init /\ [][TorusNext]_vars

\* ----------------------------------- game/collision-system: CollisionSpec
\* the head of the calls: 0.5 units short of the seam of x
SeamHead ==
  [position |-> Vec3(4150, spawnY, 0), headingRad |-> 0, speed |-> 0,
   angularVelocity |-> 0]

\* where the segments of a call lie: across the seam at 0.64 from the head
\* and at 0.65, on the head's side at 0.64, and at the centre of the world
SelfPlaces ==
  {Vec3(-4186, spawnY, 0), Vec3(-4185, spawnY, 0), Vec3(4150, spawnY, 64),
   Vec3(0, spawnY, 0)}

\* checkSelfCollision(head, segments, width, depth), one call a run, on
\* four to six segments
SelfCheckCall ==
  /\ last.op = "new"
  /\ \E n \in 4..6 : \E places \in [1..n -> SelfPlaces] :
       \E segments \in {[i \in 1..n |-> [id |-> i, position |-> places[i]]]} :
         last' = [op |-> "checkSelfCollision", head |-> SeamHead,
                  segments |-> segments,
                  result |-> checkSelfCollision(SeamHead, segments)]
  /\ UNCHANGED <<scoring, snake, spawn, elapsedSec, difficulty01,
                 spawnGraceSec, activePowerup, hist, budget, held, store, loop, app, client>>

\* the obstacles of a call: static or pulsing with the largest amplitude
\* createObstacle draws, of radius 1.2, across the seam at 1.9 from the head
\* and at 2.0, on the head's side at 1.9, and at the centre of the world
CheckedObstacles ==
  {[id |-> 1, position |-> place, radius |-> 120, kind |-> "static",
    pulseAmplitude |-> 0, pulseFrequency |-> 0, pulsePhase |-> 0] :
     place \in {Vec3(-4060, spawnY, 0), Vec3(-4050, spawnY, 0),
                Vec3(3960, spawnY, 0), Vec3(0, spawnY, 0)}}
  \cup
  {[id |-> 1, position |-> place, radius |-> 120, kind |-> "pulse",
    pulseAmplitude |-> 280, pulseFrequency |-> frequency,
    pulsePhase |-> phase] :
     place \in {Vec3(-4060, spawnY, 0), Vec3(-4050, spawnY, 0),
                Vec3(3960, spawnY, 0), Vec3(0, spawnY, 0)},
     frequency \in {1400, 2800}, phase \in {0, 4712}}

\* checkObstacleCollision(head, obstacles, elapsedSec, width, depth), one
\* call a run, on one or two obstacles
ObstacleCheckCall ==
  /\ last.op = "new"
  /\ \E n \in 1..2, at \in 0..MaxElapsed :
       \E obstacles \in [1..n -> CheckedObstacles] :
         last' = [op |-> "checkObstacleCollision", head |-> SeamHead,
                  obstacles |-> obstacles, elapsedSec |-> at,
                  result |-> checkObstacleCollision(SeamHead, obstacles, at)]
  /\ UNCHANGED <<scoring, snake, spawn, elapsedSec, difficulty01,
                 spawnGraceSec, activePowerup, hist, budget, held, store, loop, app, client>>

CollisionNext == SelfCheckCall \/ ObstacleCheckCall

CollisionSpec == Init /\ [][CollisionNext]_vars

\* ------------------------------------- the session observed: ObserverSpec
\* a session reset and ticked straight ahead by a caller that takes
\* snapshots, writes to what it reaches from them, and lets them go before
\* the next call
ObservedReset == held = NoHeld /\ Reset

ObservedUpdate == held = NoHeld /\ Update /\ last'.turn = 0

\* getSnapshot(): held keeps the snapshot and the session as it was
TakeSnapshot ==
  /\ hist.started
  /\ held = NoHeld
  /\ held' = [taken |-> TRUE, snapshot |-> getSnapshot(Session),
              session |-> Session, written |-> New, writes |-> 0]
  /\ UNCHANGED <<scoring, snake, spawn, elapsedSec, difficulty01,
                 spawnGraceSec, activePowerup, last, hist, budget, store, loop, app, client>>

\* the caller writes to one object it reaches from the snapshot; the write
\* lands in the session when the object is one of the session's
Tamper ==
  /\ held # NoHeld
  /\ held.writes = 0
  /\ \E at \in SnapshotNodes(held.snapshot) :
       /\ Assign(Poke(Session, at))
       /\ held' = [held EXCEPT !.written = at, !.writes = 1]
  /\ UNCHANGED <<hist, budget, store, loop, app, client>>

\* the caller lets the snapshot go
DropSnapshot ==
  /\ held # NoHeld
  /\ held' = NoHeld
  /\ UNCHANGED <<scoring, snake, spawn, elapsedSec, difficulty01,
                 spawnGraceSec, activePowerup, last, hist, budget, store, loop, app, client>>

ObserverNext ==
  ObservedReset \/ ObservedUpdate \/ TakeSnapshot \/ Tamper \/ DropSnapshot

ObserverSpec == Init /\ [][ObserverNext]_vars

\* ------------------------------------- a snake round the world: LongSpec
\* A snake longer than the world is wide meets its own tail while it runs
\* straight. The session's snake is public (readonly snake): the caller
\* resets the session, then lays the snake out again at a length the game
\* reaches by eating, and ticks it straight ahead. At 50 segments the snake
\* is shorter than the world, at 94 its tail lies 0.3 ahead of its head, and
\* 340 is all the segments it may have.
LongLengths == {50, 94, maxSegments}

\* session.snake.reset(length, position, heading) after session.reset();
\* the snake of maxSegments is laid out at the default start only
Lengthen ==
  /\ last.op = "reset"
  /\ \E length \in LongLengths :
       /\ length = maxSegments => snake.head.position = DefaultStart
       /\ snake' = SnakeReset(snake, length, snake.head.position,
                              snake.head.headingRad)
  /\ last' = [last EXCEPT !.op = "snake.reset"]
  /\ UNCHANGED <<scoring, spawn, elapsedSec, difficulty01, spawnGraceSec,
                 activePowerup, hist, budget, held, store, loop, app, client>>

\* the first reset of the session
LongReset == ~hist.started /\ Reset

LongUpdate == Len(snake.segments) > startLength /\ Update /\ last'.turn = 0

LongNext == LongReset \/ Lengthen \/ LongUpdate

LongSpec == Init /\ [][LongNext]_vars

\* --------------------------------------- a frame that stalls: StallSpec
\* a session ticked straight ahead in which a frame may take as long as the
\* active power-up has left: update sets no limit to dt
Stall ==
  /\ held = NoHeld
  /\ hist.started
  /\ budget.ticks < MaxTicks
  /\ activePowerup.kind # "none"
  /\ \E next \in {SessionUpdate(Session, activePowerup.ttlSec, 0, 0)} :
       /\ Assign(next)
       /\ hist' = Before([hist EXCEPT
                     !.sinceFood = IF next.last.ateFood THEN 0
                                   ELSE Since(hist.sinceFood,
                                              activePowerup.ttlSec)])
  /\ budget' = [budget EXCEPT !.ticks = budget.ticks + 1]
  /\ UNCHANGED <<held, store, loop, app, client>>

StallNext == ObservedReset \/ ObservedUpdate \/ Stall

StallSpec == Init /\ [][StallNext]_vars

\* ------------------------------------- a frame that lingers: LingerSpec
\* the length of a frame that outlasts what the combo has left: 1.7 s
LingerDts == {17}

\* session.update(dt, frameInput) once with such a frame, while a combo runs
Linger ==
  /\ held = NoHeld
  /\ hist.started
  /\ budget.ticks < MaxTicks
  /\ budget.ops = 0
  /\ scoring.combo > 0
  /\ \E dt \in LingerDts, input \in FrameInputs :
       /\ dt >= scoring.comboTtlSec
       /\ \E next \in {SessionUpdate(Session, dt, input.turn, input.assist)} :
          /\ Assign(next)
          /\ hist' = Before([hist EXCEPT
                        !.straight = hist.straight /\ input.turn = 0,
                        !.sinceFood = IF next.last.ateFood THEN 0
                                      ELSE Since(hist.sinceFood, dt)])
  /\ budget' = [budget EXCEPT !.ticks = budget.ticks + 1, !.ops = 1]
  /\ UNCHANGED <<held, store, loop, app, client>>

\* the ticks before it
LingerUpdate == budget.ops = 0 /\ Update

LingerNext == Reset \/ LingerUpdate \/ Linger

LingerSpec == Init /\ [][LingerNext]_vars

\* ----------------------------------- frames of no duration: IdleSpec
\* a session reset at the default start or 200 units off it, more than two
\* worlds outside the domain (reset copies the position as it is), and
\* ticked straight ahead; up to MaxIdle of the frames have dt = 0
FarStart ==
  [startPosition |-> Vec3(20000, spawnY, 0), headingRad |-> 0]

IdleReset ==
  /\ ~hist.started
  /\ \E options \in {[startPosition |-> DefaultStart, headingRad |-> 0],
                      FarStart} :
       \E next \in {SessionReset(Session, options)} : Assign(next)
  /\ hist' = Before([NoHist EXCEPT !.started = TRUE])
  /\ budget' = [budget EXCEPT !.resets = budget.resets + 1]
  /\ UNCHANGED <<held, store, loop, app, client>>

\* session.update(0, frameInput)
Idle ==
  /\ hist.started
  /\ budget.ticks < MaxTicks
  /\ budget.ops < MaxIdle
  /\ \E next \in {SessionUpdate(Session, 0, 0, 0)} :
       /\ Assign(next)
       /\ hist' = Before([hist EXCEPT
                     !.sinceFood = IF next.last.ateFood THEN 0
                                   ELSE Since(hist.sinceFood, 0)])
  /\ budget' = [budget EXCEPT !.ticks = budget.ticks + 1,
                              !.ops = budget.ops + 1]
  /\ UNCHANGED <<held, store, loop, app, client>>

IdleUpdate == Update /\ last'.turn = 0

IdleNext == IdleReset \/ IdleUpdate \/ Idle

IdleSpec == Init /\ [][IdleNext]_vars

\* ------------------------------------------- core/game-loop: LoopSpec
\* the time between two frames: none, 6.7 ms, a fixed step, 43.3 ms, and a
\* stall of 253.3 ms
FrameDeltas == {0, 20, fixedStepSec, 130, maxFrameDeltaSec + 10}

LoopCall(op, ran) ==
  /\ last' = [op |-> op, running |-> loop.running,
              accumulatorSec |-> loop.accumulatorSec, updates |-> ran.updates,
              rendered |-> ran.rendered, rawDeltaSec |-> ran.rawDeltaSec,
              frameDeltaSec |-> ran.frameDeltaSec]
  /\ UNCHANGED <<scoring, snake, spawn, elapsedSec, difficulty01,
                 spawnGraceSec, activePowerup, hist, held, store, app, client>>

\* loop.start()
StartLoop ==
  /\ budget.ops < MaxFrames
  /\ loop' = LoopStart(loop)
  /\ budget' = [budget EXCEPT !.ops = budget.ops + 1]
  /\ LoopCall("start", [updates |-> 0, rendered |-> FALSE, rawDeltaSec |-> 0,
                        frameDeltaSec |-> 0])

\* loop.stop() between two frames
StopLoop ==
  /\ budget.ops < MaxFrames
  /\ loop.running
  /\ loop' = LoopStop(loop)
  /\ budget' = [budget EXCEPT !.ops = budget.ops + 1]
  /\ LoopCall("stop", [updates |-> 0, rendered |-> FALSE, rawDeltaSec |-> 0,
                       frameDeltaSec |-> 0])

\* the browser runs a frame it was asked for, delta after the last one
AnimationFrame ==
  /\ budget.ops < MaxFrames
  /\ \E handle \in loop.frames, delta \in FrameDeltas,
        stops \in {"none", "update", "render"} :
       \E ran \in {LoopFrame([loop EXCEPT !.now = loop.now + delta], handle,
                              loop.now + delta, stops)} :
         /\ loop' = ran.loop
         /\ LoopCall("frame", ran)
  /\ budget' = [budget EXCEPT !.ops = budget.ops + 1]

LoopNext == StartLoop \/ StopLoop \/ AnimationFrame

LoopSpec == Init /\ [][LoopNext]_vars

\* ------------------------------------------------------- main: AppSpec
\* The handlers main.ts registers, run in any order once bootstrap() has
\* returned; the menu's buttons are taken to be clickable whatever the menu
\* shows.  The loop's fixed step is the model's session step.
\* input.getInput(): no turn, or a turn (on the first tick of a game)
AppInputs == {[turn |-> 0, assist |-> 0], [turn |-> 1, assist |-> 0]}

AppCall(a) ==
  /\ budget.ops < MaxAppOps
  /\ app.state # "boot"
  /\ app' = [a EXCEPT !.ran = FALSE]
  /\ budget' = [budget EXCEPT !.ops = budget.ops + 1]
  /\ UNCHANGED <<scoring, snake, spawn, elapsedSec, difficulty01,
                 spawnGraceSec, activePowerup, last, hist, held, store, loop,
                 client>>

\* the end of bootstrap(): session.reset(), setState("menu"), loop.start()
Bootstrap ==
  /\ app.state = "boot"
  /\ \E next \in {SessionReset(Session,
                       [startPosition |-> DefaultStart, headingRad |-> 0])} :
       Assign(next)
  /\ hist' = Before([NoHist EXCEPT !.started = TRUE])
  /\ app' = setState([app EXCEPT !.lastSnapshot = TRUE, !.via = "bootstrap"],
                     "menu")
  /\ loop' = LoopStart(loop)
  /\ budget' = [budget EXCEPT !.resets = budget.resets + 1]
  /\ UNCHANGED <<held, store, client>>

\* startGame(), from the menu's onStart and onRestart and from __snake3d
StartGame ==
  /\ budget.ops < MaxAppOps
  /\ app.state # "boot"
  /\ \E next \in {SessionReset(Session,
                       [startPosition |-> DefaultStart, headingRad |-> 0])} :
       Assign(next)
  /\ hist' = Before([NoHist EXCEPT !.started = TRUE])
  /\ \E via \in {"onStart", "onRestart", "startGame"} :
       app' = setState([app EXCEPT !.lastSnapshot = TRUE, !.via = via,
                                   !.ran = FALSE], "playing")
  /\ budget' = [budget EXCEPT !.resets = budget.resets + 1,
                              !.ops = budget.ops + 1]
  /\ UNCHANGED <<held, store, loop, client>>

PressEscape == AppCall(OnEscape([app EXCEPT !.via = "escape"]))

ClickMenu ==
  \E button \in {"onResume", "onMainMenu"} :
    AppCall(OnMenu([app EXCEPT !.via = button], button))

ForceGameOver == AppCall(forceGameOver([app EXCEPT !.via = "forceGameOver"]))

\* callbacks.update(dt) in a state other than playing
SkippedUpdate ==
  /\ loop.running
  /\ ~UpdatesSession(app)
  /\ AppCall([app EXCEPT !.via = "update"])

\* callbacks.update(dt) that goes on to session.update(dt, input.getInput())
PlayingUpdate ==
  /\ loop.running
  /\ UpdatesSession(app)
  /\ budget.ticks < MaxAppTicks
  /\ \E dt \in DtChoices, input \in AppInputs :
       /\ input.turn # 0 => last.op = "reset"
       /\ \E next \in {SessionUpdate(Session, dt, input.turn, input.assist)} :
          /\ Assign(next)
          /\ hist' = Before([hist EXCEPT
                        !.straight = hist.straight /\ input.turn = 0,
                        !.sinceFood = IF next.last.ateFood THEN 0
                                      ELSE Since(hist.sinceFood, dt)])
          /\ budget' = [budget EXCEPT
                          !.ticks = budget.ticks + 1,
                          !.turns = budget.turns
                                      + (IF input.turn # 0 THEN 1 ELSE 0)]
          /\ \E a \in {[app EXCEPT !.lastSnapshot = TRUE, !.via = "update",
                                    !.ran = TRUE]} :
               app' = IF next.last.gameOver THEN setState(a, "gameover")
                      ELSE a
  /\ UNCHANGED <<held, store, loop, client>>

AppNext ==
  \/ Bootstrap
  \/ StartGame
  \/ PressEscape
  \/ ClickMenu
  \/ ForceGameOver
  \/ SkippedUpdate
  \/ PlayingUpdate

AppSpec == Init /\ [][AppNext]_vars

\* ------------------------------------- net/multiplayer-client: ClientSpec
\* The caller's join(), leave() and tick() in any order, and the answers of
\* the server to the requests in flight in any order.
ClientNames == {"", "ann"}

ClientDts == {60, 120}

PlayerLists == {<<>>, <<"p2">>, <<"p1", "p2">>}

\* what safeFetch resolves to for /api/multiplayer/join
JoinResponses ==
  [ok : {TRUE}, error : {""}, self : {"p1"}, players : PlayerLists,
   tickRateMs : {50, 120}]
  \cup [ok : {FALSE}, error : {"network_unreachable", "join_failed"},
        self : {""}, players : {<<>>}, tickRateMs : {120}]

\* what safeFetch resolves to for /api/multiplayer/sync
SyncResponses ==
  [ok : {TRUE}, error : {""}, players : PlayerLists]
  \cup [ok : {FALSE}, error : {"unknown_player", "sync_failed"},
        players : {<<>>}]

ClientStep(c) ==
  /\ client' = c
  /\ UNCHANGED <<scoring, snake, spawn, elapsedSec, difficulty01,
                 spawnGraceSec, activePowerup, last, hist, held, store, loop,
                 app>>

ClientCall(c) ==
  /\ budget.ops < MaxClientOps
  /\ budget' = [budget EXCEPT !.ops = budget.ops + 1]
  /\ ClientStep(c)

CallJoin == \E name \in ClientNames : ClientCall(JoinBegin(client, name, "user"))

CallLeave == ClientCall(leave(client))

CallTick == \E dt \in ClientDts : ClientCall(tick(client, dt))

\* the answer to a join request arrives
JoinAnswered ==
  /\ \E idx \in 1..Len(client.calls), response \in JoinResponses,
        local \in BOOLEAN :
       /\ client.calls[idx].op = "join"
       /\ ClientStep(JoinSettle(client, idx, response, local))
  /\ UNCHANGED budget

\* the answer to a sync request arrives
SyncAnswered ==
  /\ \E idx \in 1..Len(client.calls), response \in SyncResponses :
       /\ client.calls[idx].op = "sync"
       /\ ClientStep(SyncSettle(client, idx, response))
  /\ UNCHANGED budget

ClientNext ==
  CallJoin \/ CallLeave \/ CallTick \/ JoinAnswered \/ SyncAnswered

ClientSpec == Init /\ [][ClientNext]_vars

\* ---------------------------------------- the multiplayer store: StoreSpec
\* the API routes call the store while earlier calls are in flight; the KV
\* service answers or fails each request, and lets keys expire
NoStoredPlayer == [id |-> "", score |-> 0, updatedAt |-> 0]

StoreInit ==
  /\ scoring = ScoringNew
  /\ snake = SnakeNew
  /\ spawn = SpawnNew(1)
  /\ elapsedSec = 0
  /\ difficulty01 = 0
  /\ spawnGraceSec = START_GRACE_SEC
  /\ activePowerup = NoPowerup
  /\ last = NoCall
  /\ hist = NoHist
  /\ budget = NoBudget
  /\ held = NoHeld
  /\ \E env \in StoreEnvs : store = StoreNew(env)
  /\ loop = LoopNew
  /\ app = AppNew
  /\ client = ClientNew

StoreStep(next) ==
  /\ store' = next
  /\ UNCHANGED <<scoring, snake, spawn, elapsedSec, difficulty01,
                 spawnGraceSec, activePowerup, last, hist, budget, held, loop, app, client>>

UpsertPlayer ==
  /\ Len(store.calls) < MaxCalls
  /\ \E player \in StorePlayers :
       StoreStep(StoreBegin(store, "upsertPlayer", player.id, player, 0))

RemovePlayer ==
  /\ Len(store.calls) < MaxCalls
  /\ \E id \in StoreIds :
       StoreStep(StoreBegin(store, "removePlayer", id, NoStoredPlayer, 0))

GetPlayer ==
  /\ Len(store.calls) < MaxCalls
  /\ \E id \in StoreIds :
       StoreStep(StoreBegin(store, "getPlayer", id, NoStoredPlayer, 0))

ListActivePlayers ==
  /\ Len(store.calls) < MaxCalls
  /\ \E nowMs \in StoreNows :
       StoreStep(StoreBegin(store, "listActivePlayers", "", NoStoredPlayer,
                            nowMs))

\* the import of getKvClient() resolves with a client
ImportLoads ==
  /\ store.kvClientPromise = "pending"
  /\ StoreStep([store EXCEPT !.kvClientPromise = "client"])

\* the import, or the connection, fails: the catch of getKvClient()
ImportFails ==
  /\ store.kvClientPromise = "pending"
  /\ StoreStep([store EXCEPT !.forcedMemoryMode = TRUE,
                             !.kvClientPromise = "null"])

ClientResolves ==
  \E i \in 1..Len(store.calls) :
    /\ store.calls[i].pc = "await"
    /\ ClientOf(store, store.calls[i]) # "pending"
    /\ StoreStep(ClientResolved(store, i))

KvAnswers ==
  \E i \in 1..Len(store.calls) :
    /\ store.calls[i].pc = "kv"
    /\ StoreStep(KvOpAnswered(store, i))

KvThrows ==
  \E i \in 1..Len(store.calls) :
    /\ store.calls[i].pc = "kv"
    /\ StoreStep(KvOpThrew(store, i))

\* the key of a player reaches its time to live (ex: PLAYER_TTL_SEC)
KvExpires ==
  \E p \in store.kv.players :
    StoreStep([store EXCEPT !.kv.players = @ \ {p}])

StoreNext ==
  \/ UpsertPlayer \/ RemovePlayer \/ GetPlayer \/ ListActivePlayers
  \/ ImportLoads \/ ImportFails \/ ClientResolves
  \/ KvAnswers \/ KvThrows \/ KvExpires

StoreSpec == StoreInit /\ [][StoreNext]_vars

\* ------------------------------------------------------------- the claims
\* what the two collision checks find in the state a tick leaves
HeadHitsObstacle ==
  checkObstacleCollision(snake.head, spawn.obstacles, elapsedSec) # 0

HeadHitsItself == checkSelfCollision(snake.head, snake.segments)

\* the last call was a tick of a session in which every tick had turn = 0
StraightTick == last.op = "update" /\ hist.straight

\* C1: from a fresh reset, with turn = 0 in every tick, no tick k with
\* k * dt <= START_GRACE_SEC returns gameOver = true, whatever the obstacle
\* layout (elapsedSec is k * dt).  update lowers spawnGraceSec before it
\* reads it, so the tick at which k * dt reaches START_GRACE_SEC finds the
\* timer at 0 and is not protected.
C1_NoGameOverThroughGrace ==
  (StraightTick /\ elapsedSec <= START_GRACE_SEC) => ~last.gameOver

\* C2: a tick returns gameOver = true if and only if, at its collision
\* checks, the head hits itself or an obstacle, no phase power-up is active
\* and the grace timer is 0.
C2_GameOverIffUngatedHit ==
  last.op = "update" =>
    (last.gameOver <=>
       /\ HeadHitsItself \/ HeadHitsObstacle
       /\ activePowerup.kind # "phase"
       /\ spawnGraceSec = 0)

\* C2's case: a tick whose head is inside an obstacle while phase is active
\* and the grace period is over, and the session goes on
C2_HitUnderPhase ==
  /\ last.op = "update"
  /\ HeadHitsObstacle
  /\ activePowerup.kind = "phase"
  /\ spawnGraceSec = 0
  /\ ~last.gameOver

\* C3: the score is a non-negative integer, and no tick lowers it.
C3_ScoreMonotone ==
  /\ scoring.score \in Nat
  /\ last.op = "update" => scoring.score >= hist.scoreBefore

\* C3's case: a tick that raises the score while overdrive is active
C3_ScoreRaisedUnderOverdrive ==
  /\ last.op = "update"
  /\ activePowerup.kind = "overdrive"
  /\ scoring.multiplier > 100
  /\ scoring.score > hist.scoreBefore

\* C4: the combo is above 0 exactly while less than comboWindowSec has
\* passed in update calls since the last food, every food restarting the
\* window; when the window has passed, combo is 0 and the multiplier 1.
C4_ComboWindow ==
  /\ scoring.combo > 0 <=>
       (hist.sinceFood >= 0 /\ hist.sinceFood < comboWindowSec)
  /\ scoring.combo = 0 => scoring.multiplier = 100

\* C4's case: update has just let the window of a collected food pass
C4_WindowPassed ==
  /\ last.op = "scoring.update"
  /\ hist.sinceFood = comboWindowSec
  /\ scoring.score > 0
  /\ scoring.combo = 0
  /\ scoring.multiplier = 100

\* C5: the multiplier is 1 + clamp(floor(combo / comboStepSize) *
\* comboStepMultiplier, 0, comboMaxBonus) of the combo, hence between 1 and
\* 1 + comboMaxBonus, and 1 while combo < comboStepSize.
C5_MultiplierOfCombo ==
  /\ scoring.multiplier =
       100 + Max(0, Min(comboMaxBonus,
                        (scoring.combo \div comboStepSize) * comboStepMultiplier))
  /\ scoring.multiplier >= 100
  /\ scoring.multiplier <= 100 + comboMaxBonus
  /\ scoring.combo < comboStepSize => scoring.multiplier = 100

\* C5's case: a combo whose bonus the clamp cuts
C5_BonusClamped ==
  /\ (scoring.combo \div comboStepSize) * comboStepMultiplier > comboMaxBonus
  /\ scoring.multiplier = 100 + comboMaxBonus

\* C6: after any sequence of reset, grow and update the snake has at most
\* maxSegments segments.
C6_SegmentsCapped == Len(snake.segments) <= maxSegments

\* C6's case: a grow by more than the remaining capacity
C6_GrownToCap ==
  /\ last.op = "snake.grow"
  /\ hist.segmentsBefore > 0
  /\ hist.segmentsBefore + last.amount > maxSegments
  /\ Len(snake.segments) = maxSegments

\* C7: grow and update never shorten the snake, grow by n <= 0 and update
\* leave its length as it is, the snake has a segment once reset was called,
\* and the i-th segment from the head, counted from 0, has id i + 1.
C7_SegmentsKept ==
  /\ last.op \in {"snake.grow", "snake.update"} =>
       Len(snake.segments) >= hist.segmentsBefore
  /\ (last.op = "snake.update" \/ (last.op = "snake.grow" /\ last.amount <= 0))
       => Len(snake.segments) = hist.segmentsBefore
  /\ hist.started => Len(snake.segments) > 0
  /\ \A i \in 1..Len(snake.segments) : snake.segments[i].id = i

\* C7's case: a snake that was reset and has grown since
C7_GrownAfterReset ==
  /\ hist.started
  /\ last.op = "snake.grow"
  /\ hist.segmentsBefore > 0
  /\ Len(snake.segments) > hist.segmentsBefore

\* C8: reset leaves foodCount foods, and the spawn update of every tick
\* brings the foods back to foodCount.
C8_FoodReplenished ==
  /\ last.op = "reset" => Len(spawn.foods) = foodCount
  /\ last.op = "update" => last.foodsAfterSpawn = foodCount

\* C8's case: a tick that starts one food short
C8_ReplenishedAfterMeal ==
  /\ last.op = "update"
  /\ hist.foodsBefore < foodCount
  /\ last.foodsAfterSpawn = foodCount

\* C9, as stated: after reset and after every tick the session holds
\* foodCount foods.
C9_FoodCountAlwaysTarget == hist.started => Len(spawn.foods) = foodCount

\* C9, amended: after reset and after every tick the session holds
\* foodCount foods, or one less right after a tick in which the head
\* collected a food.
C9_FoodCountTargetOrOneShort ==
  hist.started =>
    Len(spawn.foods) = foodCount - (IF last.ateFood THEN 1 ELSE 0)

\* C9's case: the state a tick that collected a food leaves
C9_OneShortAfterMeal ==
  /\ hist.started
  /\ last.ateFood
  /\ Len(spawn.foods) = foodCount - 1

\* C10: no tick removes an obstacle or adds more than one, the count never
\* exceeds floor(baseObstacleCount + difficulty01 * (maxObstacleCount -
\* baseObstacleCount)) nor maxObstacleCount, and reset leaves
\* baseObstacleCount.
C10_ObstacleGrowth ==
  /\ last.op = "update" =>
       /\ Len(spawn.obstacles) >= hist.obstaclesBefore
       /\ Len(spawn.obstacles) <= hist.obstaclesBefore + 1
  /\ hist.started =>
       /\ rampSec * Len(spawn.obstacles) <=
            rampSec * baseObstacleCount
              + difficulty01 * (maxObstacleCount - baseObstacleCount)
       /\ Len(spawn.obstacles) <= maxObstacleCount
  /\ last.op = "reset" => Len(spawn.obstacles) = baseObstacleCount

\* C10's case: a tick that adds an obstacle
C10_ObstacleAdded ==
  /\ last.op = "update"
  /\ Len(spawn.obstacles) = hist.obstaclesBefore + 1
  /\ Len(spawn.obstacles) > baseObstacleCount

\* a position of the wrapped fundamental domain
InDomain(p) ==
  /\ p.x >= -(torusWidth \div 2) /\ p.x < torusWidth \div 2
  /\ p.z >= -(torusDepth \div 2) /\ p.z < torusDepth \div 2

C13_OnePowerupWithTimeLeft ==
  /\ activePowerup.kind \in PickupChoices
  /\ activePowerup.kind # "none" => activePowerup.ttlSec > 0
  /\ activePowerup.kind = "none" => activePowerup = NoPowerup
  /\ (last.op = "powerup.tick" /\ last.tookPickup # "none") =>
       activePowerup = [kind |-> last.tookPickup,
                        ttlSec |-> POWERUP_DURATIONS(last.tookPickup)]
  /\ (last.op = "powerup.tick" /\ last.tookPickup = "none"
        /\ hist.powerupBefore.kind # "none") =>
       IF hist.powerupBefore.ttlSec - last.dt <= 0
       THEN activePowerup = NoPowerup
       ELSE activePowerup =
              [kind |-> hist.powerupBefore.kind,
               ttlSec |-> hist.powerupBefore.ttlSec - last.dt]

\* C13's case: a pickup collected while a power-up of another kind, partly
\* used, is active
C13_PowerupOverwritten ==
  /\ last.op = "powerup.tick"
  /\ last.tookPickup # "none"
  /\ hist.powerupBefore.kind \notin {"none", last.tookPickup}
  /\ hist.powerupBefore.ttlSec < POWERUP_DURATIONS(hist.powerupBefore.kind)
  /\ activePowerup.kind = last.tookPickup

\* C11: no reachable state has more than two pickups; an update whose
\* power-up timer fires while two pickups are present adds none, keeps the
\* two that were there, and still draws the timer again (10 s to 18 s).
C11_AtMostTwoPickups ==
  /\ Len(spawn.pickups) <= 2
  /\ (last.op = "spawn.update" /\ hist.pickupsBefore = 2
        /\ hist.timerBefore - last.dt <= 0)
       => /\ Len(spawn.pickups) = 2
          /\ \A i \in 1..Len(spawn.pickups) :
               spawn.pickups[i].id \in hist.idsBefore
          /\ spawn.nextId - hist.nextIdBefore
               = (Len(spawn.foods) + Len(spawn.obstacles))
                   - Cardinality(hist.idsBefore \cap
                       ({spawn.foods[i].id : i \in 1..Len(spawn.foods)}
                          \cup {spawn.obstacles[i].id :
                                  i \in 1..Len(spawn.obstacles)}))
          /\ spawn.powerupTimerSec \in 100..180

\* the timer fired in an update that started with two pickups
C11_TimerFiredAtCap ==
  /\ last.op = "spawn.update"
  /\ hist.pickupsBefore = 2
  /\ hist.timerBefore - last.dt <= 0
  /\ Len(spawn.pickups) = 2

\* C12: the ids of the entities present are pairwise different and below
\* the counter, in each list they grow with the position, and between two
\* resets a call never lowers the counter and gives every entity it adds an
\* id at or above the counter it started from, hence above every id issued
\* before, consumed or not.
C12_IdsStrictlyIncreasing ==
  /\ Cardinality(EntityIds(spawn))
       = Len(spawn.foods) + Len(spawn.pickups) + Len(spawn.obstacles)
  /\ \A id \in EntityIds(spawn) : 1 <= id /\ id < spawn.nextId
  /\ \A i \in 1..(Len(spawn.foods) - 1) :
       spawn.foods[i].id < spawn.foods[i + 1].id
  /\ \A i \in 1..(Len(spawn.pickups) - 1) :
       spawn.pickups[i].id < spawn.pickups[i + 1].id
  /\ \A i \in 1..(Len(spawn.obstacles) - 1) :
       spawn.obstacles[i].id < spawn.obstacles[i + 1].id
  /\ (hist.started /\ last.op # "spawn.reset")
       => /\ spawn.nextId >= hist.nextIdBefore
          /\ \A id \in EntityIds(spawn) \ hist.idsBefore :
               id >= hist.nextIdBefore
          /\ Cardinality(EntityIds(spawn) \ hist.idsBefore)
               = spawn.nextId - hist.nextIdBefore

\* an update added an entity after an earlier one had been consumed
C12_IssuedAfterConsumption ==
  /\ last.op = "spawn.update"
  /\ EntityIds(spawn) \ hist.idsBefore # {}
  /\ \E id \in 1..(hist.nextIdBefore - 1) : id \notin EntityIds(spawn)

\* the entities the last reset or update of the spawn system has added
AddedByLastCall ==
  {b \in SpawnedEntities(spawn) :
     /\ last.op \in {"spawn.reset", "spawn.update"}
     /\ last.op = "spawn.reset" \/ b.id >= hist.nextIdBefore}

\* C15: every entity a reset or an update has placed on the accepting path
\* (not by the fallback) lies at least minHeadDistance from the head, at
\* least minSegmentDistance from every segment, and from every entity that
\* existed when it was placed at least that entity's distance: radius +
\* minObstacleDistance of an obstacle, minFoodDistance of a food,
\* minPickupDistance of a pickup.
C15_AcceptedPlacementsAreSafe ==
  \A b \in AddedByLastCall :
    ~b.placement.fallback
      => /\ torusDistSq(b.position, snake.head.position)
              >= minHeadDistance * minHeadDistance
         /\ \A i \in 1..Len(snake.segments) :
              torusDistSq(b.position, snake.segments[i].position)
                >= minSegmentDistance * minSegmentDistance
         /\ \A a \in SpawnedEntities(spawn) :
              a.id < b.id
                => torusDistSq(b.position, a.position) >= a.keepOut * a.keepOut

\* an update placed an entity on the accepting path after a candidate had
\* been rejected
C15_AcceptedAfterRejection ==
  /\ last.op = "spawn.update"
  /\ \E b \in AddedByLastCall :
       ~b.placement.fallback /\ b.placement.attempts >= 2

\* C16, as stated: after SpawnSystem.reset no obstacle lies inside the start
\* safe corridor of the head.
C16_NoSeededObstacleInCorridor ==
  last.op = "spawn.reset"
    => \A i \in 1..Len(spawn.obstacles) :
         ~isInStartSafeCorridor(snake.head, spawn.obstacles[i].position)

\* C16, amended: after SpawnSystem.reset an obstacle lies inside the start
\* safe corridor of the head only if createObstacle ran out of its 80
\* redraws, the first position and every redraw having fallen inside the
\* corridor; an obstacle placed with fewer redraws lies outside it.
C16_SeededObstacleInCorridorOnlyWhenExhausted ==
  last.op = "spawn.reset"
    => /\ Len(spawn.obstacles) = baseObstacleCount
       /\ \A i \in 1..Len(spawn.obstacles) :
            isInStartSafeCorridor(snake.head, spawn.obstacles[i].position)
              => spawn.obstacles[i].placement.redraws = 80

\* a reset moved a seeded obstacle out of the corridor by a redraw
C16_RedrawnOutOfCorridor ==
  /\ last.op = "spawn.reset"
  /\ \E i \in 1..Len(spawn.obstacles) :
       /\ spawn.obstacles[i].placement.redraws \in 1..79
       /\ ~isInStartSafeCorridor(snake.head, spawn.obstacles[i].position)

\* C17, as stated: an obstacle added by an update (population growth) is
\* placed without any corridor check against the head: it stands where the
\* first call of findSafePosition put it, no position having been drawn
\* again for the corridor.
C17_GrowthSkipsCorridorCheck ==
  last.op = "spawn.update"
    => \A i \in 1..Len(spawn.obstacles) :
         spawn.obstacles[i].id >= hist.nextIdBefore
           => spawn.obstacles[i].placement.redraws = 0

\* an update drew the position of a growth obstacle again and so moved it
\* out of the corridor of the head
C17_GrowthRedrawnOutOfCorridor ==
  /\ last.op = "spawn.update"
  /\ \E i \in 1..Len(spawn.obstacles) :
       /\ spawn.obstacles[i].id >= hist.nextIdBefore
       /\ spawn.obstacles[i].placement.redraws \in 1..79
       /\ ~isInStartSafeCorridor(snake.head, spawn.obstacles[i].position)

\* C18: every reset and update of the spawn system comes to an end within
\* its budgets: each entity was placed after at most 60 candidates, the
\* fallback only after all 60, each obstacle after at most 80 redraws for
\* the corridor; a reset ends with baseObstacleCount obstacles and foodCount
\* foods, an update with foodCount foods, at most one more obstacle and at
\* most one more pickup.
C18_SpawnCallsWithinBudget ==
  /\ \A e \in SpawnedEntities(spawn) :
       /\ e.placement.attempts \in 1..60
       /\ e.placement.fallback => e.placement.attempts = 60
       /\ e.placement.redraws \in 0..80
  /\ last.op = "spawn.reset"
       => /\ Len(spawn.obstacles) = baseObstacleCount
          /\ Len(spawn.foods) = foodCount
          /\ spawn.nextId = 1 + baseObstacleCount + foodCount
  /\ last.op = "spawn.update"
       => /\ Len(spawn.foods) = foodCount
          /\ Len(spawn.pickups) <= hist.pickupsBefore + 1
          /\ Cardinality({spawn.obstacles[i].id : i \in 1..Len(spawn.obstacles)}
                           \ hist.idsBefore) <= 1
          /\ spawn.nextId - hist.nextIdBefore <= foodCount + 2

\* an update placed an obstacle by the fallback, all 60 candidates rejected,
\* after all 80 redraws for the corridor
C18_BothBudgetsExhausted ==
  /\ last.op = "spawn.update"
  /\ \E i \in 1..Len(spawn.obstacles) :
       /\ spawn.obstacles[i].id >= hist.nextIdBefore
       /\ spawn.obstacles[i].placement.fallback
       /\ spawn.obstacles[i].placement.attempts = 60
       /\ spawn.obstacles[i].placement.redraws = 80

\* a session without its callbacks and without the record of their calls
C20_Unobserved(s) == [s EXCEPT !.events = {}, !.last.events = <<>>]

\* C20: the session works without callbacks and they only observe: from
\* every state, each update of the session constructed without callbacks
\* returns the same result and leaves the same state as that of the session
\* constructed with all three, and records no call; so does each reset of a
\* new session and of one whose last tick was terminal.
C20_CallbacksOnlyObserve ==
  held = NoHeld
    => /\ \A dt \in DtChoices, input \in FrameInputs :
            /\ SessionUpdate([Session EXCEPT !.events = {}], dt, input.turn,
                              input.assist)
                 = C20_Unobserved(SessionUpdate(Session, dt, input.turn,
                                                input.assist))
       /\ (~hist.started \/ last.gameOver)
            => \A options \in SpawnOptions :
                 SessionReset([Session EXCEPT !.events = {}], options)
                   = C20_Unobserved(SessionReset(Session, options))

\* an update has just called onPickup for a food and onComboChanged
C20_CallbacksCalled ==
  /\ last.op = "update"
  /\ last.ateFood
  /\ \E i, j \in 1..Len(last.events) :
       last.events[i].type = "pickup" /\ last.events[j].type = "combo"

\* C19: a write to any object reached from a snapshot leaves the session
\* as it was when the snapshot was taken, and so every later snapshot and
\* tick result: the session held equals the session now, and a snapshot
\* taken now equals the one taken then.
C19_SnapshotIsDeepCopy ==
  held # NoHeld
    => /\ Session = held.session
       /\ getSnapshot(Session) = held.snapshot
       /\ \A at \in SnapshotNodes(held.snapshot) : at = New

\* the caller has written to an object of a snapshot that holds segments,
\* foods, obstacles and an active power-up
C19_SnapshotWrittenTo ==
  /\ held # NoHeld
  /\ held.writes = 1
  /\ Len(held.snapshot.segments.items) >= 1
  /\ Len(held.snapshot.foods.items) >= 1
  /\ Len(held.snapshot.obstacles.items) >= 1
  /\ held.snapshot.activePowerup.fields.kind # "none"

\* the world of a session as a caller sees it: head, segments, entities,
\* score and power-up
C21_World(s) ==
  [head |-> s.snake.head, segments |-> s.snake.segments,
   foods |-> [i \in 1..Len(s.spawn.foods) |->
                [id |-> s.spawn.foods[i].id,
                 position |-> s.spawn.foods[i].position]],
   pickups |-> [i \in 1..Len(s.spawn.pickups) |->
                  [id |-> s.spawn.pickups[i].id,
                   kind |-> s.spawn.pickups[i].kind,
                   position |-> s.spawn.pickups[i].position]],
   obstacles |-> [i \in 1..Len(s.spawn.obstacles) |->
                    [id |-> s.spawn.obstacles[i].id,
                     radius |-> s.spawn.obstacles[i].radius,
                     kind |-> s.spawn.obstacles[i].kind,
                     position |-> s.spawn.obstacles[i].position]],
   score |-> s.scoring, activePowerup |-> s.activePowerup]

\* C21, as stated: two sessions reset with the same options have the same
\* world. After the first reset of a new session, the world equals that of
\* any other new session reset with the same start position and heading,
\* whatever numbers the other session's own random source returns.
C21_SameWorldForSameInputs ==
  (last.op = "reset" /\ budget.resets = 1 /\ budget.ticks = 0)
    => \A src \in 1..Len(RandomScripts) :
         C21_World(SessionReset(
                     [Session EXCEPT !.scoring = ScoringNew,
                                     !.snake = SnakeNew,
                                     !.spawn = SpawnNew(src),
                                     !.last = NoCall],
                     [startPosition |-> snake.head.position,
                      headingRad |-> snake.head.headingRad]))
           = C21_World(Session)

\* frame inputs inside and outside [-1, 1]
C22_Inputs ==
  {[turn |-> turn, assist |-> assist] :
     turn \in {-3, 1, 2}, assist \in {-10, 0, 5}}

\* the session after an update, the input recorded for the call left out
C22_After(s, dt, turn, assist) ==
  [SessionUpdate(s, dt, turn, assist) EXCEPT !.last.turn = 0]

\* C22, as stated: for any turn and assist, update behaves as if both had
\* first been clamped to [-1, 1]; the desired angular velocity stays within
\* turnRate * 1.18 and the effective turn rate is never negative.
C22_InputsClampedBeforeUse ==
  (hist.started /\ held = NoHeld)
    => \A dt \in DtChoices, input \in C22_Inputs :
         /\ C22_After(Session, dt, input.turn, input.assist)
              = C22_After(Session, dt, clamp(input.turn, -1, 1),
                          clamp(input.assist, -1, 1))
         /\ TurnRateFor(input.assist) >= 0
         /\ Abs(clamp(input.turn, -1, 1) * TurnRateFor(input.assist))
              <= (turnRate * (100 + assistPct)) \div 100

\* C23: wrapScalar(x, size) lies in [-size/2, size/2), differs from x by a
\* multiple of size, and wrapping it again changes nothing.
C23_WrapScalarInRange ==
  last.op = "wrapScalar"
    => /\ -last.size <= 2 * last.result
       /\ 2 * last.result < last.size
       /\ (last.result - last.value) % last.size = 0
       /\ wrapScalar(last.result, last.size) = last.result

\* a value of exactly size/2 was wrapped to -size/2
C23_WrappedAtUpperEnd ==
  /\ last.op = "wrapScalar"
  /\ 2 * last.value = last.size
  /\ 2 * last.result = -last.size

\* C24: for all a and b, |torusDelta(a, b, size)| <= size/2 and
\* torusDelta(a, b, size) = -torusDelta(b, a, size).
C24_DeltaShortForAll ==
  last.op = "torusDelta"
    => /\ 2 * Abs(last.result) <= last.size
       /\ last.result = -torusDelta(last.to, last.from, last.size)

\* torusDelta returned a delta longer than size/2: the raw displacement was
\* more than one and a half sizes, and size is taken off only once
C24_DeltaLongerThanHalf ==
  /\ last.op = "torusDelta"
  /\ 2 * (last.to - last.from) > 3 * last.size
  /\ last.result = last.to - last.from - last.size
  /\ 2 * last.result > last.size

\* the raw displacement of the last call of torusDelta is exactly size/2 or
\* -size/2
C25_Antipodal == last.op = "torusDelta" /\ 2 * Abs(last.to - last.from) = last.size

\* C25, as stated: torusDelta returns the same sign for every antipodal
\* pair, hence for a pair and for the same pair the other way round.
C25_TieBreaksOneWay ==
  C25_Antipodal
    => (last.result > 0) = (torusDelta(last.to, last.from, last.size) > 0)

\* C25, amended: for an antipodal pair torusDelta returns the raw
\* displacement to - from as it is: +size/2 when to lies size/2 above from,
\* -size/2 when it lies size/2 below.
C25_TieKeepsRawDisplacement ==
  C25_Antipodal => last.result = last.to - last.from

\* torusDelta was called on a pair whose raw displacement is -size/2
C25_TieBelow ==
  /\ C25_Antipodal
  /\ last.to < last.from
  /\ 2 * last.result = -last.size

\* C26: after reset, whatever the session held before: no time elapsed, no
\* difficulty, the full grace period, no power-up, score 0, combo 0,
\* multiplier 1, eight segments each one spacing further behind the head
\* along the heading, no pickups, foodCount foods, baseObstacleCount
\* obstacles, and the ids of the entities are 1, 2, ... again.
C26_ResetReseedsEverything ==
  last.op = "reset"
    => /\ elapsedSec = 0
       /\ difficulty01 = 0
       /\ spawnGraceSec = START_GRACE_SEC
       /\ activePowerup = NoPowerup
       /\ scoring.score = 0
       /\ scoring.combo = 0
       /\ scoring.multiplier = 100
       /\ Len(snake.segments) = 8
       /\ \A i \in 1..Len(snake.segments) :
            /\ torusDelta(snake.segments[i].position.x, snake.head.position.x,
                          torusWidth)
                 = TruncDiv(cos(snake.head.headingRad) * i * segmentSpacing, 1000)
            /\ torusDelta(snake.segments[i].position.z, snake.head.position.z,
                          torusDepth)
                 = TruncDiv(sin(snake.head.headingRad) * i * segmentSpacing, 1000)
            /\ snake.segments[i].position.y = snake.head.position.y
       /\ Len(spawn.pickups) = 0
       /\ Len(spawn.foods) = foodCount
       /\ Len(spawn.obstacles) = baseObstacleCount
       /\ EntityIds(spawn) = 1..(foodCount + baseObstacleCount)
       /\ spawn.nextId = foodCount + baseObstacleCount + 1

\* a session was reset that had scored, grown, issued further ids and held a
\* power-up when its run ended
C26_ResetAfterPlay ==
  /\ last.op = "reset"
  /\ hist.scoreBefore > 0
  /\ hist.segmentsBefore > 8
  /\ hist.nextIdBefore > foodCount + baseObstacleCount + 1
  /\ hist.powerupBefore # NoPowerup

\* C27: no call of the store is rejected; a call that found no KV, or whose
\* KV request failed, or that began after a failure, returned what its
\* memoryOp returned on the memory store; and once a request or the import
\* has failed, getStorageMode() is "memory".
C27_FallsBackToMemory ==
  /\ \A i \in 1..Len(store.calls) :
       LET c == store.calls[i]
       IN /\ c.outcome # "rejected"
          /\ c.failed => c.outcome = "returned"
          /\ (c.outcome = "returned"
                /\ (c.failed \/ c.forcedAtStart
                      \/ ~isRemoteStorageConfigured(store)
                      \/ ClientOf(store, c) = "null"))
               => /\ c.via = "memory"
                  /\ c.result = memoryOp(c.memoryAt, c).result
  /\ ((\E i \in 1..Len(store.calls) : store.calls[i].failed)
        \/ store.kvClientPromise = "null")
       => /\ store.forcedMemoryMode
          /\ getStorageMode(store) = "memory"

\* with KV configured, an upsert failed on the service and kept its player
\* in memory, and a listing begun after it returned that player from memory
C27_ServedFromMemoryAfterFailure ==
  /\ isRemoteStorageConfigured(store)
  /\ Len(store.calls) = 2
  /\ store.calls[1].op = "upsertPlayer"
  /\ store.calls[1].failed
  /\ store.calls[1].outcome = "returned"
  /\ store.calls[2].forcedAtStart
  /\ store.calls[2].op = "listActivePlayers"
  /\ store.calls[2].via = "memory"
  /\ Len(store.calls[2].result) = 1

\* the indices of the onCollision calls among the events of the last call
C28_Collisions ==
  {i \in 1..Len(last.events) : last.events[i].type = "collision"}

\* C28: a tick that returns gameOver = true calls onCollision exactly once,
\* with "self" when the self check hit and with "obstacle" otherwise; a tick
\* that returns gameOver = false does not call it.
C28_OneCollisionEventPerGameOver ==
  last.op = "update"
    => IF last.gameOver
       THEN /\ Cardinality(C28_Collisions) = 1
            /\ \A i \in C28_Collisions :
                 last.events[i].kind
                   = (IF HeadHitsItself THEN "self" ELSE "obstacle")
       ELSE C28_Collisions = {}

\* a terminal tick whose head is on its own tail and inside an obstacle:
\* onCollision("self")
C28_SelfBeforeObstacle ==
  /\ last.op = "update"
  /\ last.gameOver
  /\ HeadHitsItself
  /\ HeadHitsObstacle
  /\ \E i \in C28_Collisions : last.events[i].kind = "self"

\* the session at the food check of update(dt, frameInput)
C29_AtFoodCheck(s, dt, turn, assist) ==
  TickScoring(
    NoteFoods(
      TickSpawn(
        TickMagnet(TickSnake(TickClock(s, dt, turn), dt, turn, assist), dt),
        dt)),
    dt)

\* the rest of update(dt, frameInput) from the food check on
C29_FromFoodCheck(s, scoreBefore) ==
  TickCollision(TickCombo(TickPickup(TickFood(s)), scoreBefore))

\* the indices of the onPickup("food") calls among events
C29_FoodEvents(events) ==
  {i \in 1..Len(events) : events[i].type = "pickup" /\ events[i].kind = "food"}

\* C29: when a food is within the pickup radius of the head at the food
\* check, the tick removes that food and no other, adds one segment (none
\* when the snake has maxSegments), raises the combo by one, adds
\* round(foodBaseScore * (multiplier + bonus)) to the score, next to the gain
\* of a pickup taken in the same tick, and calls onPickup("food") once; a
\* tick takes at most one food and at most one pickup, and without a food in
\* reach it does none of this.
C29_OneFoodPerTick ==
  (hist.started /\ Len(snake.segments) > startLength)
    => \A dt \in DtChoices :
         LET pre == C29_AtFoodCheck(Session, dt, 0, 0)
             post == C29_FromFoodCheck(pre, scoring)
             food == checkFoodCollision(pre.snake.head, pre.spawn.foods)
             pickup == checkPickupCollision(pre.snake.head, pre.spawn.pickups)
             segments == Len(pre.snake.segments)
         IN /\ Len(post.spawn.foods) >= Len(pre.spawn.foods) - 1
            /\ Len(post.spawn.pickups) >= Len(pre.spawn.pickups) - 1
            /\ food # 0
                 => /\ post.spawn.foods = Without(pre.spawn.foods, food)
                    /\ Len(post.snake.segments)
                         = (IF segments >= maxSegments THEN segments
                            ELSE segments + 1)
                    /\ post.scoring.combo = pre.scoring.combo + 1
                    /\ post.scoring.score
                         = pre.scoring.score
                             + RoundDiv(foodBaseScore
                                          * (post.scoring.multiplier
                                               + pre.scoring.multiplierBonus),
                                        100)
                             + (IF pickup = 0 THEN 0
                                ELSE PowerupGain(post.scoring.multiplier,
                                                 pre.scoring.multiplierBonus))
                    /\ Cardinality(C29_FoodEvents(post.last.events)) = 1
            /\ food = 0
                 => /\ post.spawn.foods = pre.spawn.foods
                    /\ Len(post.snake.segments) = segments
                    /\ post.scoring.combo = pre.scoring.combo
                    /\ C29_FoodEvents(post.last.events) = {}

\* a snake of maxSegments ate a food: the food is gone, the event is there,
\* and the snake is as long as it was
C29_AteAtCap ==
  /\ last.op = "update"
  /\ last.ateFood
  /\ hist.segmentsBefore = maxSegments
  /\ Len(snake.segments) = maxSegments
  /\ Cardinality(C29_FoodEvents(last.events)) = 1

\* the steps of the ticks C30 looks at: the session's, and the time the
\* active power-up has left
C30_Dts == DtChoices \cup {dt \in {activePowerup.ttlSec} : dt > 0}

\* s with the pickup at index pickup of another kind
C30_OfKind(s, pickup, kind) == [s EXCEPT !.spawn.pickups[pickup].kind = kind]

\* C30: a power-up whose time runs out in a tick has no effect in that tick:
\* the tick leaves what it leaves without a power-up.  A power-up collected
\* in a tick is active after it for its full time and gates the collisions
\* of that tick when it is phase; the snake, the score and the foods the
\* tick leaves are the same whatever its kind.
C30_PowerupEffectsInOrder ==
  (hist.started /\ held = NoHeld)
    => \A dt \in C30_Dts :
         LET atFood == C29_AtFoodCheck(Session, dt, 0, 0)
             atPickup == TickFood(atFood)
             after == C29_FromFoodCheck(atFood, scoring)
             pickup == checkPickupCollision(atPickup.snake.head,
                                            atPickup.spawn.pickups)
         IN /\ (activePowerup.kind # "none" /\ activePowerup.ttlSec - dt <= 0)
                 => after = SessionUpdate(
                              [Session EXCEPT !.activePowerup = NoPowerup],
                              dt, 0, 0)
            /\ pickup # 0
                 => /\ after.activePowerup
                         = [kind |-> atPickup.spawn.pickups[pickup].kind,
                            ttlSec |-> POWERUP_DURATIONS(
                                         atPickup.spawn.pickups[pickup].kind)]
                    /\ after.activePowerup.kind = "phase"
                         => ~after.last.gameOver
                    /\ \A k \in 1..Len(PowerupKinds) :
                         LET other == TickCollision(
                                        TickCombo(
                                          TickPickup(
                                            C30_OfKind(atPickup, pickup,
                                                       PowerupKinds[k])),
                                          scoring))
                         IN /\ other.snake = after.snake
                            /\ other.scoring = after.scoring
                            /\ other.spawn.foods = after.spawn.foods
                            /\ other.spawn.obstacles = after.spawn.obstacles

\* the time of the active power-up ran out in the last tick
C30_RanOut ==
  /\ last.op = "update"
  /\ hist.powerupBefore.kind # "none"
  /\ hist.powerupBefore.ttlSec - last.dt <= 0
  /\ activePowerup = NoPowerup

\* the indices of the onComboChanged calls among the events of the last call
C31_ComboEvents ==
  {i \in 1..Len(last.events) : last.events[i].type = "combo"}

\* C31: a tick that leaves the combo or the multiplier other than it found
\* them calls onComboChanged exactly once, with the combo and the multiplier
\* it leaves; a tick that leaves both as they were does not call it.
C31_ComboEventIffChanged ==
  last.op = "update"
    => IF scoring.combo # hist.scoringBefore.combo
            \/ scoring.multiplier # hist.scoringBefore.multiplier
       THEN /\ Cardinality(C31_ComboEvents) = 1
            /\ \A i \in C31_ComboEvents :
                 /\ last.events[i].combo = scoring.combo
                 /\ last.events[i].multiplier = scoring.multiplier
       ELSE C31_ComboEvents = {}

\* the combo ran out during the last tick
C31_Decayed ==
  /\ hist.scoringBefore.combo > 0
  /\ hist.scoringBefore.comboTtlSec <= last.dt

\* C31 as stated: a tick in which the combo ran out, a food was collected, or
\* both, calls onComboChanged exactly once.
C31_ComboEventOnEveryChange ==
  last.op = "update" /\ (C31_Decayed \/ last.ateFood)
    => Cardinality(C31_ComboEvents) = 1

\* a tick in which the combo ran out, without a meal: onComboChanged(0, 1)
C31_ComboRanOut ==
  /\ last.op = "update"
  /\ ~last.ateFood
  /\ C31_Decayed
  /\ scoring.combo = 0
  /\ \E i \in C31_ComboEvents : last.events[i].combo = 0

\* a tick in which a combo of 1 ran out and a food was collected: the combo
\* is 1 again, and onComboChanged was not called
C31_RanOutAndAte ==
  /\ last.op = "update"
  /\ last.ateFood
  /\ C31_Decayed
  /\ hist.scoringBefore.combo = 1
  /\ scoring.combo = 1
  /\ scoring.comboTtlSec = comboWindowSec
  /\ C31_ComboEvents = {}

C33_PruningKeepsMargin ==
  last.op = "update"
    => /\ Len(snake.trail) >= 2
       /\ snake.trail[1].distance # hist.oldestBefore
            => snake.trail[1].distance
                 < snake.totalDistance
                     - (hist.segmentsBefore + 4) * segmentSpacing
       /\ hist.coveredBefore /\ ~last.ateFood => TrailCovers(snake)

\* C33 as stated: after every tick the oldest sample lies at or beyond the
\* lookback of the last segment, also right after growth.
C33_TrailCoversSegments ==
  last.op = "update"
    => /\ Len(snake.trail) >= 2
       /\ TrailCovers(snake)

\* the fourth meal in a row of a head at rest: the snake has outgrown the
\* seeded trail, and its last segment is clamped to the oldest sample
C33_OutgrewTrail ==
  /\ last.op = "update"
  /\ last.ateFood
  /\ hist.coveredBefore
  /\ ~TrailCovers(snake)

\* the x axis of a call of torusLerp(a, b, num / den): the delta the lerp
\* walks along, and the wrapped delta from a to the result
C34_Walked == torusDelta(last.a.x, last.b.x, last.size)

C34_FromA == torusDelta(last.a.x, last.result.x, last.size)

\* C34: for t in [0, 1] torusLerp(a, b, t) walks the shortest wrapped path
\* on each axis and wraps again: the result lies in the domain, its wrapped
\* delta from a is t * torusDelta(a, b), t = 0 gives wrap(a), and t = 1 gives
\* a point equivalent to b.
C34_LerpAlongShortestPath ==
  last.op = "torusLerp"
    => /\ 2 * last.result.x >= -last.size /\ 2 * last.result.x < last.size
       /\ 2 * last.result.z >= -last.size /\ 2 * last.result.z < last.size
       /\ 2 * Abs(C34_Walked) <= last.size
       /\ C34_FromA = TruncDiv(C34_Walked * last.num, last.den)
       /\ last.num = 0 => last.result.x = wrapScalar(last.a.x, last.size)
       /\ last.num = last.den
            => last.result.x = wrapScalar(last.b.x, last.size)

\* a and b more than one and a half sizes apart: the lerp walks a delta
\* longer than half the size
C34_WalkedLongWay ==
  /\ last.op = "torusLerp"
  /\ 2 * Abs(C34_Walked) > last.size

\* a outside the domain by more than one size and b = a: the wrapped delta
\* from a to the result of a lerp that walked nothing is not 0
C34_DeltaFromFarA ==
  /\ last.op = "torusLerp"
  /\ C34_Walked = 0
  /\ C34_FromA # 0

\* the wrapped ground-plane distance of two positions, squared: the shortest
\* of the distances to the images of q one world to either side
C35_WrappedDistSq(p, q) ==
  LET images == {(q.x - p.x + i * torusWidth) * (q.x - p.x + i * torusWidth)
                   + (q.z - p.z + j * torusDepth) * (q.z - p.z + j * torusDepth) :
                   i \in -1..1, j \in -1..1}
  IN CHOOSE d \in images : \A e \in images : d <= e

\* the segments of the last call within radius of its head
C35_Near ==
  {i \in 1..Len(last.segments) :
     C35_WrappedDistSq(last.head.position, last.segments[i].position)
       <= selfRadius * selfRadius}

\* C35: checkSelfCollision returns true if and only if some segment of index
\* skipSegments or more (counted from 0) lies within radius of the head in
\* wrapped ground-plane distance; the segments before it never cause a hit.
C35_SelfHitIffLateSegmentNear ==
  last.op = "checkSelfCollision"
    => (last.result <=> \E i \in C35_Near : i - 1 >= selfSkipSegments)

\* a call that returned false with one of the first four segments at 0.64
\* from the head, across the seam
C35_SkippedSegmentNear ==
  /\ last.op = "checkSelfCollision"
  /\ ~last.result
  /\ \E i \in C35_Near :
       /\ i - 1 < selfSkipSegments
       /\ last.segments[i].position.x < 0

\* the hit radius of obstacle i of the last call at its elapsed time
C36_HitRadius(i) ==
  (last.obstacles[i].radius * pulseScale(last.obstacles[i], last.elapsedSec))
     \div 1000 + headRadius

\* the obstacles of the last call within their hit radius of its head
C36_Hit ==
  {i \in 1..Len(last.obstacles) :
     C35_WrappedDistSq(last.head.position, last.obstacles[i].position)
       <= C36_HitRadius(i) * C36_HitRadius(i)}

\* C36: checkObstacleCollision reports the first obstacle of the list within
\* radius * pulseScale + headRadius of the head in wrapped distance, or none;
\* pulseScale is 1 for a static obstacle and lies in [1, 1 + pulseAmplitude]
\* for a pulsing one, so the hit radius lies between the static hit radius
\* and radius * (1 + pulseAmplitude) + headRadius at any elapsed time.
C36_FirstObstacleWithinPulsedRadius ==
  last.op = "checkObstacleCollision"
    => /\ last.result = IF C36_Hit = {} THEN 0
                        ELSE CHOOSE i \in C36_Hit : \A j \in C36_Hit : i <= j
       /\ \A i \in 1..Len(last.obstacles) :
            LET o == last.obstacles[i]
                scale == pulseScale(o, last.elapsedSec)
            IN /\ o.kind = "static" => scale = 1000
               /\ scale >= 1000
               /\ scale <= 1000 + o.pulseAmplitude
               /\ C36_HitRadius(i) >= o.radius + headRadius
               /\ C36_HitRadius(i)
                    <= (o.radius * (1000 + o.pulseAmplitude)) \div 1000
                         + headRadius

\* a call that passed over a first obstacle out of reach and reported the
\* second, a pulsing one that lies beyond its static hit radius
C36_SecondHitWhileSwollen ==
  /\ last.op = "checkObstacleCollision"
  /\ last.result = 2
  /\ last.obstacles[2].kind = "pulse"
  /\ C35_WrappedDistSq(last.head.position, last.obstacles[2].position)
       > (last.obstacles[2].radius + headRadius)
           * (last.obstacles[2].radius + headRadius)

C38_Simulation ==
  <<scoring, snake, spawn, elapsedSec, difficulty01, spawnGraceSec,
    activePowerup>>

\* C38: while the app stays in the menu, paused or game over, nothing of the
\* session changes; Escape changes the state only from playing to paused and
\* back; game over is entered only by a playing tick whose result says
\* gameOver or by forceGameOver, and left only by startGame() (start,
\* restart) or the main-menu button.
C38_OnlyPlayingAdvances ==
  [][/\ app.state \in {"menu", "paused", "gameover"} /\ app'.state = app.state
        => UNCHANGED C38_Simulation
     /\ app'.via = "escape" /\ app'.state # app.state
        => <<app.state, app'.state>>
             \in {<<"playing", "paused">>, <<"paused", "playing">>}
     /\ app.state # "gameover" /\ app'.state = "gameover"
        => \/ app'.via = "update" /\ app.state = "playing" /\ last'.gameOver
           \/ app'.via = "forceGameOver"
     /\ app.state = "gameover" /\ app'.state # "gameover"
        => app'.via \in {"onStart", "onRestart", "startGame", "onMainMenu"}
    ]_vars

\* a playing tick has ended the game, and the loop's callback has run again
\* without a call of session.update
C38_SkippedAfterGameOver ==
  /\ app.state = "gameover"
  /\ app.via = "update"
  /\ ~app.ran
  /\ last.gameOver

\* C39: once leave() has run and until a join() of the caller succeeds, the
\* client is disconnected and getRemotes() is empty, whatever answers arrive.
C39_LeftStaysLeft ==
  client.left => client.selfId = "" /\ client.remotePlayers = <<>>

\* the answer to a sync started before leave() has filled getRemotes() of
\* the disconnected client
C39_RemotesAfterLeave ==
  /\ client.left
  /\ client.selfId = ""
  /\ client.remotePlayers # <<>>

\* the re-join of a sync started before leave() has connected the client
C39_RejoinedAfterLeave ==
  /\ client.left
  /\ client.selfId # ""

\* the syncs in flight, a join() they wait for included
C40_Syncs == {idx \in 1..Len(client.calls) : client.calls[idx].within = "sync"}

\* C40: at most one sync is in flight, and a sync is started only on at least
\* syncIntervalMs of tick time since the last one was started.
C40_OneSyncInFlight ==
  /\ Cardinality(C40_Syncs) <= 1
  /\ ~client.early

\* two syncs in flight: the second was started after leave() and a new join()
C40_TwoSyncsInFlight ==
  /\ Cardinality(C40_Syncs) = 2
  /\ client.inFlight

\* the interval part of C40 taken alone holds
C40_IntervalKept == ~client.early

====
